---- MODULE Spec2Model ----
(***************************************************************************)
(* Model of the conditional form-composition engine of Site_Survey:        *)
(* the visibility evaluator (visible_if.py), its two consumers (the        *)
(* interactive renderer of form_renderer.py and the report exporter of     *)
(* pdf_builder.py), the override resolver (overrides.py) and the section   *)
(* composer (apply_overrides of form_renderer.py).                         *)
(*                                                                         *)
(* Python values are records with a type tag.  A Python str is a sequence  *)
(* of one-character strings, so that strip(), float(), substring tests,    *)
(* concatenation and the lexicographic order are computed, not assumed.    *)
(* A Python dict is a function from str keys to values.                    *)
(***************************************************************************)
EXTENDS Integers, Sequences, FiniteSets, TLC

VARIABLES
    answers,    \* the answer map of the session (main.py: answers)
    pc,         \* "idle": between calls; "called": a call has just returned
    call,       \* the last call: operation, inputs, result
    ov_map,     \* qdef["overrides"]: scope key -> override rule
    merged,     \* the result of the last merge_overrides call
    store,      \* the objects of the loaded schema and of the composed sections
    qdef,       \* the loaded schema: where its sections are in the store
    outs,       \* the section lists apply_overrides has returned so far
    trace,      \* the render pass of the run: the fields decided so far
    ver         \* data/version.json and the admin sessions that bump it

vars == <<answers, pc, call, ov_map, merged, store, qdef, outs, trace, ver>>

(***************************************************************************)
(* Bounds of the model.                                                    *)
(***************************************************************************)
\* longest list of sub-expressions of a group
MaxSubs == 2
\* deepest nesting of groups inside groups
MaxDepth == 2
\* most script runs of a session that compose the sections
MaxRuns == 2
\* the bumps of the data version started in a behaviour
MaxBumps == 3
\* the clock values time.time() may return
MaxTime == 1

(***************************************************************************)
(* Characters and strings.                                                 *)
(***************************************************************************)
\* the characters of the model's strings, in ascending code-point order
CharTable ==
    << " ", "'", "*", "+", ",", "-", ".", "0", "1", "2", "3", "4", "5",
       "6", "7", "8", "9", ":", "A", "B", "C", "D", "E", "F", "G",
       "H", "I", "J", "K", "L", "M", "N", "O", "P", "Q", "R", "S",
       "T", "U", "V", "W", "X", "Y", "Z", "[", "]", "_", "a", "b",
       "c", "d", "e", "f", "g", "h", "i", "j", "k", "l", "m", "n",
       "o", "p", "q", "r", "s", "t", "u", "v", "w", "x", "y", "z",
       "{", "|", "}" >>

Ord(c) == CHOOSE i \in 1..Len(CharTable) : CharTable[i] = c

Digits == <<"0", "1", "2", "3", "4", "5", "6", "7", "8", "9">>
IsDigit(c) == \E i \in 1..10 : Digits[i] = c
DigitVal(c) == (CHOOSE i \in 1..10 : Digits[i] = c) - 1

\* Python's order on str: by code point, a proper prefix first
RECURSIVE StrLess(_, _)
StrLess(a, b) ==
    IF b = <<>> THEN FALSE
    ELSE IF a = <<>> THEN TRUE
    ELSE IF Head(a) = Head(b) THEN StrLess(Tail(a), Tail(b))
    ELSE Ord(Head(a)) < Ord(Head(b))

\* a in b for two str: a is a substring of b
IsSubstring(a, b) ==
    \E i \in 0..(Len(b) - Len(a)) : SubSeq(b, i + 1, i + Len(a)) = a

\* str.strip(): the only whitespace of the alphabet is the blank
RECURSIVE LStrip(_)
LStrip(s) == IF s # <<>> /\ Head(s) = " " THEN LStrip(Tail(s)) ELSE s
RECURSIVE RStrip(_)
RStrip(s) ==
    IF s # <<>> /\ s[Len(s)] = " " THEN RStrip(SubSeq(s, 1, Len(s) - 1)) ELSE s
Strip(s) == RStrip(LStrip(s))

\* str(n) for an int
RECURSIVE NatToStr(_)
NatToStr(n) ==
    IF n < 10 THEN <<Digits[n + 1]>>
    ELSE NatToStr(n \div 10) \o <<Digits[(n % 10) + 1]>>
IntToStr(n) == IF n < 0 THEN <<"-">> \o NatToStr(-n) ELSE NatToStr(n)

\* float(s) of a stripped str over the alphabet: an optional sign and digits
RECURSIVE DigitsToNat(_, _)
DigitsToNat(s, acc) ==
    IF s = <<>> THEN acc ELSE DigitsToNat(Tail(s), acc * 10 + DigitVal(Head(s)))
IsNumeral(s) ==
    LET body == IF s # <<>> /\ Head(s) \in {"-"} THEN Tail(s) ELSE s
    IN  body # <<>> /\ \A i \in 1..Len(body) : IsDigit(body[i])
NumeralVal(s) ==
    IF Head(s) = "-" THEN -DigitsToNat(Tail(s), 0) ELSE DigitsToNat(s, 0)

(***************************************************************************)
(* Python values.                                                          *)
(***************************************************************************)
PyVal(t, b, n, s, items, d) ==
    [t |-> t, b |-> b, n |-> n, s |-> s, items |-> items, d |-> d]
PyNone == PyVal("none", FALSE, 0, <<>>, <<>>, <<>>)
PyBool(b) == PyVal("bool", b, 0, <<>>, <<>>, <<>>)
PyInt(n) == PyVal("int", FALSE, n, <<>>, <<>>, <<>>)
PyStr(s) == PyVal("str", FALSE, 0, s, <<>>, <<>>)
PyList(items) == PyVal("list", FALSE, 0, <<>>, items, <<>>)
PyDict(d) == PyVal("dict", FALSE, 0, <<>>, <<>>, d)

EmptyDict == <<>>
DictSet(d, k, v) == [x \in (DOMAIN d) \cup {k} |-> IF x = k THEN v ELSE d[x]]
\* d.get(k): None when the key is missing
DictGet(d, k) == IF k \in DOMAIN d THEN d[k] ELSE PyNone
\* d.get(k, default)
DictGetOr(d, k, default) == IF k \in DOMAIN d THEN d[k] ELSE default
\* d.update(e)
DictUpdate(d, e) ==
    [x \in (DOMAIN d) \cup (DOMAIN e) |-> IF x \in DOMAIN e THEN e[x] ELSE d[x]]

\* bool(v)
Truthy(v) ==
    CASE v.t = "none" -> FALSE
      [] v.t = "bool" -> v.b
      [] v.t = "int"  -> v.n # 0
      [] v.t = "str"  -> v.s # <<>>
      [] v.t = "list" -> v.items # <<>>
      [] v.t = "dict" -> DOMAIN v.d # {}

IsNum(v) == v.t \in {"bool", "int"}
NumOf(v) == IF v.t = "bool" THEN (IF v.b THEN 1 ELSE 0) ELSE v.n

\* a == b: bool and int compare as numbers, lists element by element
RECURSIVE PyEq(_, _)
PyEq(a, b) ==
    IF IsNum(a) /\ IsNum(b) THEN NumOf(a) = NumOf(b)
    ELSE IF a.t # b.t THEN FALSE
    ELSE CASE a.t = "none" -> TRUE
           [] a.t = "str"  -> a.s = b.s
           [] a.t = "list" ->
                /\ Len(a.items) = Len(b.items)
                /\ \A i \in 1..Len(a.items) : PyEq(a.items[i], b.items[i])
           [] a.t = "dict" ->
                /\ DOMAIN a.d = DOMAIN b.d
                /\ \A k \in DOMAIN a.d : PyEq(a.d[k], b.d[k])
           [] OTHER -> FALSE

\* x in list
InList(x, items) == \E i \in 1..Len(items) : PyEq(items[i], x)

\* hash(x) raises TypeError for a list or a dict
Hashable(x) == x.t \notin {"list", "dict"}

\* the key of a value used as a dict key (keys of the model are str)
InKeys(x, d) == x.t = "str" /\ x.s \in DOMAIN d

RECURSIVE JoinStr(_, _)
JoinStr(parts, sep) ==
    IF parts = <<>> THEN <<>>
    ELSE IF Len(parts) = 1 THEN parts[1]
    ELSE parts[1] \o sep \o JoinStr(Tail(parts), sep)

\* the one key of a dict of the model's value universe
OneKey(d) == CHOOSE k \in DOMAIN d : TRUE

\* repr(v) and str(v)
RECURSIVE Repr(_)
Repr(v) ==
    CASE v.t = "none" -> <<"N", "o", "n", "e">>
      [] v.t = "bool" ->
            IF v.b THEN <<"T", "r", "u", "e">> ELSE <<"F", "a", "l", "s", "e">>
      [] v.t = "int"  -> IntToStr(v.n)
      [] v.t = "str"  -> <<"'">> \o v.s \o <<"'">>
      [] v.t = "list" ->
            <<"[">>
            \o JoinStr([i \in 1..Len(v.items) |-> Repr(v.items[i])], <<",", " ">>)
            \o <<"]">>
      [] v.t = "dict" ->
            IF DOMAIN v.d = {} THEN <<"{", "}">>
            ELSE <<"{", "'">> \o OneKey(v.d) \o <<"'", ":", " ">>
                 \o Repr(v.d[OneKey(v.d)]) \o <<"}">>
Str(v) == IF v.t = "str" THEN v.s ELSE Repr(v)

(***************************************************************************)
(* String literals of the source.                                          *)
(***************************************************************************)
S_all == <<"a", "l", "l">>
S_any == <<"a", "n", "y">>
S_field == <<"f", "i", "e", "l", "d">>
S_op == <<"o", "p">>
S_value == <<"v", "a", "l", "u", "e">>
S_equals == <<"e", "q", "u", "a", "l", "s">>
S_visible_if == <<"v", "i", "s", "i", "b", "l", "e", "_", "i", "f">>
S_name == <<"n", "a", "m", "e">>
S_eq == <<"e", "q">>
S_neq == <<"n", "e", "q">>
S_in == <<"i", "n">>
S_nin == <<"n", "i", "n">>
S_gt == <<"g", "t">>
S_gte == <<"g", "t", "e">>
S_lt == <<"l", "t">>
S_lte == <<"l", "t", "e">>
S_contains == <<"c", "o", "n", "t", "a", "i", "n", "s">>
S_v_category == <<"_", "_", "c", "a", "t", "e", "g", "o", "r", "y", "_", "_">>
S_v_make == <<"_", "_", "m", "a", "k", "e", "_", "_">>
S_v_model == <<"_", "_", "m", "o", "d", "e", "l", "_", "_">>

(***************************************************************************)
(* visible_if.py                                                           *)
(***************************************************************************)
NotANumber == [ok |-> FALSE, n |-> 0]

\* a variant of _coerce_number that does not strip the str before parsing
coerce_number_nostrip(x) ==
    CASE x.t = "bool" -> [ok |-> TRUE, n |-> IF x.b THEN 1 ELSE 0]
      [] x.t = "int"  -> [ok |-> TRUE, n |-> x.n]
      [] x.t = "str" /\ Strip(x.s) # <<>> ->
            IF IsNumeral(x.s)
            THEN [ok |-> TRUE, n |-> NumeralVal(x.s)]
            ELSE NotANumber
      [] OTHER -> NotANumber

\* _coerce_number: the float of a bool, an int or a non-blank numeric str,
\* None (ok = FALSE) for anything else and when float() raises
coerce_number(x) ==
    CASE x.t = "bool" -> [ok |-> TRUE, n |-> IF x.b THEN 1 ELSE 0]
      [] x.t = "int"  -> [ok |-> TRUE, n |-> x.n]
      [] x.t = "str" /\ Strip(x.s) # <<>> ->
            IF IsNumeral(Strip(x.s))
            THEN [ok |-> TRUE, n |-> NumeralVal(Strip(x.s))]
            ELSE NotANumber
      [] OTHER -> NotANumber

OpIs(op, name) == op.t = "str" /\ op.s = name

\* the branch "contains" of _op_eval
op_contains(lhs, rhs) ==
    IF lhs.t = "none" THEN FALSE
    ELSE IF lhs.t = "list" THEN InList(rhs, lhs.items)
    ELSE IF lhs.t = "dict"
         THEN (IF Hashable(rhs) THEN InKeys(rhs, lhs.d) ELSE FALSE)
    ELSE IsSubstring(Str(rhs), Str(lhs))

\* the branch "in" of _op_eval
op_in(lhs, rhs) ==
    IF rhs.t = "none" THEN FALSE
    ELSE IF rhs.t = "list" THEN InList(lhs, rhs.items)
    ELSE IF rhs.t = "dict"
         THEN (IF Hashable(lhs) THEN InKeys(lhs, rhs.d) ELSE FALSE)
    ELSE IsSubstring(Str(lhs), Str(rhs))

\* a variant of the branch "nin" that answers False for a None right side
op_nin_none_false(lhs, rhs) ==
    IF rhs.t = "none" THEN FALSE
    ELSE IF rhs.t = "list" THEN ~InList(lhs, rhs.items)
    ELSE IF rhs.t = "dict"
         THEN (IF Hashable(lhs) THEN ~InKeys(lhs, rhs.d) ELSE TRUE)
    ELSE ~IsSubstring(Str(lhs), Str(rhs))

\* the branch "nin" of _op_eval
op_nin(lhs, rhs) ==
    IF rhs.t = "none" THEN TRUE
    ELSE IF rhs.t = "list" THEN ~InList(lhs, rhs.items)
    ELSE IF rhs.t = "dict"
         THEN (IF Hashable(lhs) THEN ~InKeys(lhs, rhs.d) ELSE TRUE)
    ELSE ~IsSubstring(Str(lhs), Str(rhs))

\* a variant of the comparisons that lets an unknown operator pass
op_compare_unknown_true(lhs, op, rhs) ==
    \A name \in {S_gt, S_gte, S_lt, S_lte} : ~OpIs(op, name)

\* the numeric comparisons of _op_eval, with their str fallback
op_compare(lhs, op, rhs) ==
    LET ln == coerce_number(lhs)
        rn == coerce_number(rhs)
        ls == IF lhs.t = "none" THEN <<>> ELSE Str(lhs)
        rs == IF rhs.t = "none" THEN <<>> ELSE Str(rhs)
    IN  IF ln.ok /\ rn.ok
        THEN CASE OpIs(op, S_gt)  -> ln.n > rn.n
               [] OpIs(op, S_gte) -> ln.n >= rn.n
               [] OpIs(op, S_lt)  -> ln.n < rn.n
               [] OpIs(op, S_lte) -> ln.n <= rn.n
               [] OTHER -> FALSE
        ELSE CASE OpIs(op, S_gt)  -> StrLess(rs, ls)
               [] OpIs(op, S_gte) -> ~StrLess(ls, rs)
               [] OpIs(op, S_lt)  -> StrLess(ls, rs)
               [] OpIs(op, S_lte) -> ~StrLess(rs, ls)
               [] OTHER -> FALSE

\* _op_eval
op_eval(lhs, op, rhs) ==
    CASE OpIs(op, S_eq)       -> PyEq(lhs, rhs)
      [] OpIs(op, S_neq)      -> ~PyEq(lhs, rhs)
      [] OpIs(op, S_contains) -> op_contains(lhs, rhs)
      [] OpIs(op, S_in)       -> op_in(lhs, rhs)
      [] OpIs(op, S_nin)      -> op_nin(lhs, rhs)
      [] OTHER                -> op_compare(lhs, op, rhs)

\* ctx.get(fld) for the field of a clause: the keys of ctx are str
ctx_get(ctx, fld) == IF fld.t = "str" THEN DictGet(ctx, fld.s) ELSE PyNone

\* a variant of _eval_clause that reads a missing answer as the empty str
eval_clause_default_empty(ctx, clause) ==
    LET fld == DictGet(clause, S_field)
        op  == DictGetOr(clause, S_op, PyStr(S_eq))
        val == DictGet(clause, S_value)
        lhs == IF fld.t = "str" THEN DictGetOr(ctx, fld.s, PyStr(<<>>)) ELSE PyNone
    IN  op_eval(lhs, op, val)

\* _eval_clause
eval_clause(ctx, clause) ==
    LET fld == DictGet(clause, S_field)
        op  == DictGetOr(clause, S_op, PyStr(S_eq))
        val == DictGet(clause, S_value)
        lhs == ctx_get(ctx, fld)
    IN  op_eval(lhs, op, val)

(***************************************************************************)
(* evaluate works on a heap of dict objects: heap[r] is the dict that the  *)
(* reference r names.  A call returns its result and the heap it leaves.   *)
(***************************************************************************)
Result(ret, heap) == [ret |-> ret, heap |-> heap]

\* a variant of the guard that hides the field when there is no condition
on_absent_hide(heap) == Result(FALSE, heap)

\* "if not cond: return True"
on_absent(heap) == Result(TRUE, heap)

\* a variant of the fallthrough that fails closed
on_unknown_hide(heap) == Result(FALSE, heap)

\* "Unknown structure => visible"
on_unknown(heap) == Result(TRUE, heap)

\* a variant of the context that aliases the caller's dict
new_ctx_alias(state, heap) == [ctx |-> state, heap |-> heap]

\* "ctx = dict(state or {})": a new dict object with the entries of state
new_ctx(state, heap) == [ctx |-> Len(heap) + 1, heap |-> Append(heap, heap[state])]

\* ctx[key] = v unless v is None
inject(heap, ctx, key, v) ==
    IF v.t = "none" THEN heap
    ELSE [heap EXCEPT ![ctx] = DictSet(heap[ctx], key, v)]

\* the three injections of the virtual fields
inject_virtual(heap, ctx, category, make, model) ==
    inject(inject(inject(heap, ctx, S_v_category, category),
                  ctx, S_v_make, make),
           ctx, S_v_model, model)

\* the items a for loop visits: of a list its items, of a str its characters,
\* of a dict its keys
IterItems(v) ==
    CASE v.t = "list" -> v.items
      [] v.t = "str"  -> [i \in 1..Len(v.s) |-> PyStr(<<v.s[i]>>)]
      [] v.t = "dict" -> IF DOMAIN v.d = {} THEN <<>> ELSE <<PyStr(OneKey(v.d))>>
      [] OTHER -> <<>>

\* "cond.get(k) or []"
subs_of(cond, k) ==
    LET v == DictGet(cond.d, k) IN IF Truthy(v) THEN IterItems(v) ELSE <<>>

RECURSIVE evaluate(_, _, _, _, _, _)
RECURSIVE all_loop(_, _, _, _, _, _, _)
RECURSIVE any_loop(_, _, _, _, _, _, _)

\* a variant of the all loop that answers True as soon as one sub passes
all_loop_first_true(subs, i, ctx, heap, category, make, model) ==
    IF i > Len(subs) THEN Result(subs = <<>>, heap)
    ELSE LET r == evaluate(subs[i], ctx, heap, category, make, model)
         IN  IF r.ret THEN Result(TRUE, r.heap)
             ELSE all_loop(subs, i + 1, ctx, r.heap, category, make, model)

\* "for sub in subs: if not evaluate(sub, ctx, ...): return False" / True
all_loop(subs, i, ctx, heap, category, make, model) ==
    IF i > Len(subs) THEN Result(TRUE, heap)
    ELSE LET r == evaluate(subs[i], ctx, heap, category, make, model)
         IN  IF ~r.ret THEN Result(FALSE, r.heap)
             ELSE all_loop(subs, i + 1, ctx, r.heap, category, make, model)

\* a variant of the any loop that answers True for an empty list
any_loop_empty_true(subs, i, ctx, heap, category, make, model) ==
    IF subs = <<>> THEN Result(TRUE, heap)
    ELSE IF i > Len(subs) THEN Result(FALSE, heap)
    ELSE LET r == evaluate(subs[i], ctx, heap, category, make, model)
         IN  IF r.ret THEN Result(TRUE, r.heap)
             ELSE any_loop(subs, i + 1, ctx, r.heap, category, make, model)

\* "for sub in subs: if evaluate(sub, ctx, ...): return True" / False
any_loop(subs, i, ctx, heap, category, make, model) ==
    IF i > Len(subs) THEN Result(FALSE, heap)
    ELSE LET r == evaluate(subs[i], ctx, heap, category, make, model)
         IN  IF r.ret THEN Result(TRUE, r.heap)
             ELSE any_loop(subs, i + 1, ctx, r.heap, category, make, model)

\* evaluate(cond, state, category, make, model); state is a reference
evaluate(cond, state, heap, category, make, model) ==
    IF ~Truthy(cond) THEN on_absent(heap)
    ELSE
      LET n   == new_ctx(state, heap)
          ctx == n.ctx
          h   == inject_virtual(n.heap, ctx, category, make, model)
      IN  IF cond.t = "dict" /\ S_all \in DOMAIN cond.d
          THEN all_loop(subs_of(cond, S_all), 1, ctx, h, category, make, model)
          ELSE IF cond.t = "dict" /\ S_any \in DOMAIN cond.d
          THEN any_loop(subs_of(cond, S_any), 1, ctx, h, category, make, model)
          ELSE IF cond.t = "dict" /\ S_field \in DOMAIN cond.d
          THEN Result(eval_clause(h[ctx], cond.d), h)
          ELSE IF cond.t = "list"
          THEN all_loop(cond.items, 1, ctx, h, category, make, model)
          ELSE on_unknown(h)

\* is_visible(field_def, state, category, make, model)
is_visible(field_def, state, heap, category, make, model) ==
    evaluate(DictGet(field_def.d, S_visible_if), state, heap, category, make, model)

(***************************************************************************)
(* pdf_builder.py: the visibility decision of the report exporter.         *)
(***************************************************************************)
Outcome(ret, heap, raised) == [ret |-> ret, heap |-> heap, raised |-> raised]

\* field_visible(field, answers): the legacy {field, equals} test;
\* cond.get raises AttributeError when cond is truthy and not a dict
field_visible(field, answers_ref, heap) ==
    LET cond == DictGet(field.d, S_visible_if)
    IN  IF ~Truthy(cond) THEN Outcome(TRUE, heap, FALSE)
        ELSE IF cond.t # "dict" THEN Outcome(FALSE, heap, TRUE)
        ELSE LET dep_name == DictGet(cond.d, S_field)
                 expected == DictGet(cond.d, S_equals)
             IN  Outcome(PyEq(ctx_get(heap[answers_ref], dep_name), expected),
                         heap, FALSE)

\* a variant of the exporter that always takes the legacy test
export_visible_legacy(field, answers_ref, heap, category, make, model) ==
    field_visible(field, answers_ref, heap)

\* write_section_to_pdf_QA, write_site_info, write_contact_info:
\* "vis = visible_if_eval(...) if field.get("visible_if") else field_visible(...)"
export_visible(field, answers_ref, heap, category, make, model) ==
    IF Truthy(DictGet(field.d, S_visible_if))
    THEN LET r == evaluate(DictGet(field.d, S_visible_if), answers_ref, heap,
                           category, make, model)
         IN  Outcome(r.ret, r.heap, FALSE)
    ELSE field_visible(field, answers_ref, heap)

(***************************************************************************)
(* overrides.py                                                            *)
(***************************************************************************)
S_required == <<"r", "e", "q", "u", "i", "r", "e", "d">>
S_defaults == <<"d", "e", "f", "a", "u", "l", "t", "s">>
S_hide_fields == <<"h", "i", "d", "e", "_", "f", "i", "e", "l", "d", "s">>
S_insert_after == <<"i", "n", "s", "e", "r", "t", "_", "a", "f", "t", "e", "r">>
S_after == <<"a", "f", "t", "e", "r">>
S_star == <<"*">>
S_category_colon == <<"c", "a", "t", "e", "g", "o", "r", "y", ":">>
S_make_colon == <<"m", "a", "k", "e", ":">>
S_model_colon == <<"m", "o", "d", "e", "l", ":">>
S_pipe == <<"|">>

\* _normalize_scope_name: "(s or "").strip()"
normalize_scope_name(s) == Strip(s)

\* the scopes of merge_overrides, in increasing precedence; an f-string
\* formats a value with str()
scopes(category, make, model) ==
    << S_star,
       S_category_colon \o Str(category),
       S_make_colon \o Str(make),
       S_model_colon \o Str(make) \o S_pipe \o Str(model) >>

\* _empty
empty_out ==
    [required |-> {}, defaults |-> EmptyDict, hide_fields |-> {}, insert_after |-> <<>>]

\* "[str(x) for x in lst]" as a set
StrSet(lst) == {Str(lst.items[i]) : i \in 1..Len(lst.items)}

\* a variant of the defaults merge in which the first scope to set a key wins
merge_defaults_keep_first(defaults, defs) == DictUpdate(defs, defaults)

\* "out["defaults"].update(defs)"
merge_defaults(defaults, defs) == DictUpdate(defaults, defs)

\* a variant of the shallow validation that accepts every object
accepted_insert_any_dict(item) == item.t = "dict"

\* the shallow validation of an insert_after item
accepted_insert(item) ==
    item.t = "dict" /\ S_after \in DOMAIN item.d /\ S_field \in DOMAIN item.d

\* a variant of the loop body in which the lists of a scope replace what the
\* lower scopes collected
merge_rule_replace(out, ov) ==
    LET req     == DictGet(ov.d, S_required)
        defs    == DictGet(ov.d, S_defaults)
        hides   == DictGet(ov.d, S_hide_fields)
        inserts == DictGet(ov.d, S_insert_after)
    IN  [required |-> IF req.t = "list" THEN StrSet(req) ELSE out.required,
         defaults |->
            IF defs.t = "dict" THEN merge_defaults(out.defaults, defs.d)
            ELSE out.defaults,
         hide_fields |-> IF hides.t = "list" THEN StrSet(hides) ELSE out.hide_fields,
         insert_after |->
            IF inserts.t = "list"
            THEN out.insert_after \o SelectSeq(inserts.items, accepted_insert)
            ELSE out.insert_after]

\* a variant of the loop body in which the directives of a scope go before
\* those of the lower scopes
merge_rule_prepend(out, ov) ==
    LET req     == DictGet(ov.d, S_required)
        defs    == DictGet(ov.d, S_defaults)
        hides   == DictGet(ov.d, S_hide_fields)
        inserts == DictGet(ov.d, S_insert_after)
    IN  [required |->
            IF req.t = "list" THEN out.required \cup StrSet(req) ELSE out.required,
         defaults |->
            IF defs.t = "dict" THEN merge_defaults(out.defaults, defs.d)
            ELSE out.defaults,
         hide_fields |->
            IF hides.t = "list" THEN out.hide_fields \cup StrSet(hides)
            ELSE out.hide_fields,
         insert_after |->
            IF inserts.t = "list"
            THEN SelectSeq(inserts.items, accepted_insert) \o out.insert_after
            ELSE out.insert_after]

\* the body of the loop of merge_overrides for the rule ov of one scope
merge_rule(out, ov) ==
    LET req     == DictGet(ov.d, S_required)
        defs    == DictGet(ov.d, S_defaults)
        hides   == DictGet(ov.d, S_hide_fields)
        inserts == DictGet(ov.d, S_insert_after)
    IN  [required |->
            IF req.t = "list" THEN out.required \cup StrSet(req) ELSE out.required,
         defaults |->
            IF defs.t = "dict" THEN merge_defaults(out.defaults, defs.d)
            ELSE out.defaults,
         hide_fields |->
            IF hides.t = "list" THEN out.hide_fields \cup StrSet(hides)
            ELSE out.hide_fields,
         insert_after |->
            IF inserts.t = "list"
            THEN out.insert_after \o SelectSeq(inserts.items, accepted_insert)
            ELSE out.insert_after]

\* "for s in scopes: ...", from the i-th scope on
RECURSIVE merge_loop(_, _, _, _)
merge_loop(out, ovm, ss, i) ==
    IF i > Len(ss) THEN out
    ELSE LET ov == DictGet(ovm, normalize_scope_name(ss[i]))
         IN  IF ~Truthy(ov) THEN merge_loop(out, ovm, ss, i + 1)
             ELSE merge_loop(merge_rule(out, ov), ovm, ss, i + 1)

\* merge_overrides(qdef, category, make, model), ovm being qdef["overrides"]
merge_overrides(ovm, category, make, model) ==
    merge_loop(empty_out, ovm, scopes(category, make, model), 1)

(***************************************************************************)
(* form_renderer.py: apply_overrides.  The section lists, the sections,    *)
(* their field lists and the fields are objects of a store, named by their *)
(* position in it, so that a change in place shows in every list that      *)
(* holds the object.  A dict entry whose value is such an object holds a   *)
(* reference.  An operation on the store yields the new store and what the *)
(* operation returns.                                                      *)
(***************************************************************************)
S_fields == <<"f", "i", "e", "l", "d", "s">>
S_key == <<"k", "e", "y">>
S_type == <<"t", "y", "p", "e">>
S_text == <<"t", "e", "x", "t">>

PyRef(n) == PyVal("ref", FALSE, n, <<>>, <<>>, <<>>)
ListObj(items) == [kind |-> "list", items |-> items, d |-> EmptyDict]
DictObj(d) == [kind |-> "dict", items |-> <<>>, d |-> d]
Stored(st, ret) == [store |-> st, ret |-> ret]

\* a new object
alloc(st, obj) == Stored(Append(st, obj), Len(st) + 1)
\* "obj[k] = v" on the dict at r
set_item(st, r, k, v) == [st EXCEPT ![r] = DictObj(DictSet(st[r].d, k, v))]
\* the list at r gets the items its
set_list(st, r, its) == [st EXCEPT ![r] = ListObj(its)]
\* "lst.insert(i, x)", i counted from 0
list_insert(lst, i, x) ==
    IF i >= Len(lst) THEN Append(lst, x)
    ELSE SubSeq(lst, 1, i) \o <<x>> \o SubSeq(lst, i + 1, Len(lst))

\* "sec.get("fields") or []": the fields of the section at r
fields_of(st, r) ==
    LET f == DictGet(st[r].d, S_fields)
    IN  IF f.t = "ref" THEN st[f.n].items ELSE <<>>
\* "fld.get("name")" of the field at r
name_of(st, r) == DictGet(st[r].d, S_name)
\* "x in names" for a set of names
in_names(x, names) == x.t = "str" /\ x.s \in names

\* a variant of deepcopy that returns the object itself
deepcopy_alias(st, r) == Stored(st, r)

\* copy.deepcopy of the object at r: of a list and its items, of a dict and
\* the list under its key fields
RECURSIVE deepcopy(_, _)
RECURSIVE copy_items(_, _, _, _)
deepcopy(st, r) ==
    IF st[r].kind = "list"
    THEN LET c == copy_items(st, st[r].items, 1, <<>>)
         IN  alloc(c.store, ListObj(c.ret))
    ELSE LET f == DictGet(st[r].d, S_fields)
         IN  IF f.t = "ref"
             THEN LET c == deepcopy(st, f.n)
                  IN  alloc(c.store, DictObj(DictSet(st[r].d, S_fields, PyRef(c.ret))))
             ELSE alloc(st, DictObj(st[r].d))
copy_items(st, its, i, acc) ==
    IF i > Len(its) THEN Stored(st, acc)
    ELSE LET c == deepcopy(st, its[i])
         IN  copy_items(c.store, its, i + 1, Append(acc, c.ret))

\* _find_field_index: the position, counted from 0, of the first field of
\* the list named name; -1 when there is none
find_field_index(st, flds, name) ==
    LET hits == {i \in 1..Len(flds) : PyEq(name_of(st, flds[i]), name)}
    IN  IF hits = {} THEN -1
        ELSE (CHOOSE i \in hits : \A j \in hits : i <= j) - 1

\* a variant of the hide step that removes nothing
hide_loop_keep_all(st, secs, hide_fields, i) == st

\* "sec["fields"] = [f for f in (sec.get("fields") or []) if f.get("name")
\* not in hide_fields]", from the i-th section on
RECURSIVE hide_loop(_, _, _, _)
hide_loop(st, secs, hide_fields, i) ==
    IF i > Len(secs) THEN st
    ELSE LET kept == SelectSeq(fields_of(st, secs[i]),
                               LAMBDA f : ~in_names(name_of(st, f), hide_fields))
             a == alloc(st, ListObj(kept))
         IN  hide_loop(set_item(a.store, secs[i], S_fields, PyRef(a.ret)),
                       secs, hide_fields, i + 1)

\* the first section, in the order of the list, that has a field named name;
\* 0 when no section has one
first_section_with(st, secs, name) ==
    LET hits == {k \in 1..Len(secs) :
                    find_field_index(st, fields_of(st, secs[k]), name) >= 0}
    IN  IF hits = {} THEN 0 ELSE CHOOSE k \in hits : \A j \in hits : k <= j

\* a variant that puts the new field at the end of the target's list
insert_at_end(st, lst, idx, new_field) ==
    LET c == deepcopy(st, new_field)
    IN  set_list(c.store, lst, Append(c.store[lst].items, c.ret))

\* a variant that inserts the new field before the field at idx
insert_at_before(st, lst, idx, new_field) ==
    LET c == deepcopy(st, new_field)
    IN  set_list(c.store, lst, list_insert(c.store[lst].items, idx, c.ret))

\* "fields.insert(idx + 1, copy.deepcopy(new_field))" on the list at lst
insert_at(st, lst, idx, new_field) ==
    LET c == deepcopy(st, new_field)
    IN  set_list(c.store, lst, list_insert(c.store[lst].items, idx + 1, c.ret))

\* a variant of the fallback that leaves the sections as they are
fallback_append_nothing(st, secs, new_field) == st

\* "out_sections[-1].setdefault("fields", []).append(copy.deepcopy(new_field))"
fallback_append(st, secs, new_field) ==
    LET last == secs[Len(secs)]
        c    == deepcopy(st, new_field)
    IN  IF S_fields \in DOMAIN c.store[last].d
        THEN LET lst == c.store[last].d[S_fields].n
             IN  set_list(c.store, lst, Append(c.store[lst].items, c.ret))
        ELSE LET a == alloc(c.store, ListObj(<<c.ret>>))
             IN  set_item(a.store, last, S_fields, PyRef(a.ret))

\* the body of "for ins in inserts" for one directive
insert_one(st, secs, ins) ==
    LET after_name == DictGet(ins.d, S_after)
        new_field  == DictGet(ins.d, S_field)
    IN  IF ~Truthy(after_name) \/ new_field.t # "ref" THEN st
        ELSE LET k == first_section_with(st, secs, after_name)
             IN  IF k > 0
                 THEN LET lst == st[secs[k]].d[S_fields].n
                      IN  insert_at(st, lst,
                                    find_field_index(st, st[lst].items, after_name),
                                    new_field.n)
                 ELSE IF secs # <<>> THEN fallback_append(st, secs, new_field.n)
                 ELSE st

RECURSIVE insert_loop(_, _, _, _)
insert_loop(st, secs, inserts, j) ==
    IF j > Len(inserts) THEN st
    ELSE insert_loop(insert_one(st, secs, inserts[j]), secs, inserts, j + 1)

\* a variant that leaves the flag of the field as it is
mark_required_skip(st, f) == st

\* "fld["required"] = True"
mark_required(st, f) == set_item(st, f, S_required, PyBool(TRUE))

\* "for fld in (sec.get("fields") or []): if fld.get("name") in required: ..."
RECURSIVE require_fields(_, _, _, _)
require_fields(st, flds, required, i) ==
    IF i > Len(flds) THEN st
    ELSE require_fields(IF in_names(name_of(st, flds[i]), required)
                        THEN mark_required(st, flds[i]) ELSE st,
                        flds, required, i + 1)

RECURSIVE require_loop(_, _, _, _)
require_loop(st, secs, required, i) ==
    IF i > Len(secs) THEN st
    ELSE require_loop(require_fields(st, fields_of(st, secs[i]), required, 1),
                      secs, required, i + 1)

\* apply_overrides(sections, merged_overrides): sections is the list at the
\* reference, ov what merge_overrides returned
apply_overrides(st, sections, ov) ==
    LET c    == deepcopy(st, sections)
        secs == c.store[c.ret].items
        s1   == IF ov.hide_fields # {}
                THEN hide_loop(c.store, secs, ov.hide_fields, 1) ELSE c.store
        s2   == insert_loop(s1, secs, ov.insert_after, 1)
        s3   == IF ov.required # {} THEN require_loop(s2, secs, ov.required, 1) ELSE s2
    IN  Stored(s3, c.ret)

(***************************************************************************)
(* data_loader.py: load_questions and its validators, on the value read    *)
(* from questions.json.  A validator yields the message of the error it    *)
(* raises, or NoError.                                                     *)
(***************************************************************************)
S_base_sections == <<"b", "a", "s", "e", "_", "s", "e", "c", "t", "i", "o", "n", "s">>
S_category_packs ==
    <<"c", "a", "t", "e", "g", "o", "r", "y", "_", "p", "a", "c", "k", "s">>
S_overrides == <<"o", "v", "e", "r", "r", "i", "d", "e", "s">>
S_and == <<"a", "n", "d">>
S_or == <<"o", "r">>

ALLOWED_FIELD_TYPES ==
    { S_text,
      <<"t", "e", "x", "t", "a", "r", "e", "a">>,
      <<"r", "a", "d", "i", "o">>,
      <<"t", "i", "m", "e">>,
      <<"n", "u", "m", "b", "e", "r">>,
      <<"s", "e", "l", "e", "c", "t">>,
      <<"m", "u", "l", "t", "i", "s", "e", "l", "e", "c", "t">>,
      <<"c", "h", "e", "c", "k", "b", "o", "x">>,
      <<"f", "i", "l", "e">> }

NoError == "ok"
\* the first error of a sequence of checks
FirstError(errs) ==
    LET bad == {i \in 1..Len(errs) : errs[i] # NoError}
    IN  IF bad = {} THEN NoError ELSE errs[CHOOSE i \in bad : \A j \in bad : i <= j]

\* the keys of a dict in the order of str
RECURSIVE SortedKeys(_)
SortedKeys(K) ==
    IF K = {} THEN <<>>
    ELSE LET k == CHOOSE x \in K : \A y \in K \ {x} : StrLess(x, y)
         IN  <<k>> \o SortedKeys(K \ {k})

\* "section.get("fields", [])" as a sequence of field values
section_fields(sec) == DictGetOr(sec.d, S_fields, PyList(<<>>)).items

\* the body of the loop of _validate_unique_field_names for the i-th field
field_error(flds, i) ==
    LET nm == DictGet(flds[i].d, S_name)
    IN  IF ~Truthy(nm) THEN "Field without name"
        ELSE IF \E j \in 1..(i - 1) : PyEq(DictGet(flds[j].d, S_name), nm)
             THEN "Duplicate field name"
        ELSE IF ~in_names(DictGetOr(flds[i].d, S_type, PyStr(S_text)),
                          ALLOWED_FIELD_TYPES)
             THEN "Unsupported field type"
        ELSE NoError

\* _validate_unique_field_names
validate_unique_field_names(sec) ==
    FirstError([i \in 1..Len(section_fields(sec)) |-> field_error(section_fields(sec), i)])

\* the items of a list value; nothing for None ("secs or []")
items_or_empty(v) == IF v.t = "list" THEN v.items ELSE <<>>
\* the values of the entries of a sequence
Range(seq) == {seq[i] : i \in 1..Len(seq)}
\* the truthy names of the fields of a sequence of sections
section_names(secs) ==
    {DictGet(f.d, S_name) :
        f \in {g \in UNION {Range(section_fields(sec)) : sec \in Range(secs)} :
                 Truthy(DictGet(g.d, S_name))}}
\* the truthy names of the field payloads of the insert_after entries of a rule
payload_names(ov) ==
    {DictGet(DictGet(ins.d, S_field).d, S_name) :
        ins \in {e \in Range(items_or_empty(DictGet(ov.d, S_insert_after))) :
                    /\ DictGet(e.d, S_field).t = "dict"
                    /\ Truthy(DictGet(DictGet(e.d, S_field).d, S_name))}}

\* _collect_all_field_names
collect_all_field_names(q) ==
    LET base  == DictGetOr(q.d, S_base_sections, PyList(<<>>)).items
        packs == DictGetOr(q.d, S_category_packs, PyDict(EmptyDict)).d
        ovs   == DictGetOr(q.d, S_overrides, PyDict(EmptyDict)).d
    IN  section_names(base)
        \cup UNION {section_names(items_or_empty(packs[c])) : c \in DOMAIN packs}
        \cup UNION {payload_names(ovs[k]) : k \in DOMAIN ovs}

\* _each_visible_clause: the simple clauses of a condition
RECURSIVE each_visible_clause(_)
RECURSIVE flatten_clauses(_, _)
each_visible_clause(cond) ==
    IF ~Truthy(cond) THEN <<>>
    ELSE IF cond.t = "dict"
         THEN IF S_field \in DOMAIN cond.d THEN <<cond>>
              ELSE IF S_and \in DOMAIN cond.d /\ cond.d[S_and].t = "list"
                   THEN flatten_clauses(cond.d[S_and].items, 1)
              ELSE IF S_or \in DOMAIN cond.d /\ cond.d[S_or].t = "list"
                   THEN flatten_clauses(cond.d[S_or].items, 1)
              ELSE <<cond>>
    ELSE IF cond.t = "list" THEN flatten_clauses(cond.items, 1)
    ELSE <<>>
flatten_clauses(its, i) ==
    IF i > Len(its) THEN <<>>
    ELSE each_visible_clause(its[i]) \o flatten_clauses(its, i + 1)

virtuals == {PyStr(S_v_category), PyStr(S_v_make), PyStr(S_v_model)}

\* "ref in names" for a set of values
in_values(ref, names) == \E n \in names : PyEq(n, ref)

\* the loops over the fields of a section and the clauses of their
\* conditions in _validate_visible_if_references
section_reference_error(sec, known) ==
    LET refs == {DictGet(cl.d, S_field) :
                   cl \in UNION {Range(each_visible_clause(DictGet(f.d, S_visible_if))) :
                                   f \in Range(section_fields(sec))}}
    IN  IF \E ref \in refs :
              Truthy(ref) /\ ~in_values(ref, known) /\ ~in_values(ref, virtuals)
        THEN "visible_if bad reference"
        ELSE NoError

\* the body of the loop over category_packs in _validate_visible_if_references
pack_reference_error(secs, known) ==
    IF secs.t = "none" THEN NoError
    ELSE IF secs.t # "list" THEN "category_packs schema error"
    ELSE FirstError([i \in 1..Len(secs.items) |->
            IF secs.items[i].t # "dict" THEN "category_packs section not object"
            ELSE section_reference_error(secs.items[i], known)])

\* _validate_visible_if_references
validate_visible_if_references(q) ==
    LET known == collect_all_field_names(q)
        base  == DictGetOr(q.d, S_base_sections, PyList(<<>>)).items
        packs == q.d[S_category_packs].d
        cats  == SortedKeys(DOMAIN packs)
    IN  FirstError(
            [i \in 1..Len(base) |->
                IF base[i].t # "dict" THEN NoError
                ELSE section_reference_error(base[i], known)]
            \o [i \in 1..Len(cats) |-> pack_reference_error(packs[cats[i]], known)])

\* the body of the loop over the insert_after entries of a rule in
\* _validate_insert_afters
insert_error(ins, all_names) ==
    LET after == DictGet(ins.d, S_after)
        fld   == DictGet(ins.d, S_field)
    IN  IF ~Truthy(after) \/ fld.t # "dict" THEN "Invalid insert_after"
        ELSE IF ~in_values(after, all_names) THEN "insert_after target not found"
        ELSE NoError

\* _validate_insert_afters
validate_insert_afters(q) ==
    LET all_names == collect_all_field_names(q)
        ovs       == DictGetOr(q.d, S_overrides, PyDict(EmptyDict)).d
        keys      == SortedKeys(DOMAIN ovs)
        inserts(k) == items_or_empty(DictGet(ovs[k].d, S_insert_after))
    IN  FirstError([i \in 1..Len(keys) |->
            FirstError([j \in 1..Len(inserts(keys[i])) |->
                insert_error(inserts(keys[i])[j], all_names)])])

\* the body of the loop over category_packs in load_questions
pack_error(secs) ==
    IF secs.t = "none" THEN NoError
    ELSE IF secs.t # "list" THEN "category_packs schema error"
    ELSE FirstError([i \in 1..Len(secs.items) |->
            IF secs.items[i].t # "dict" THEN "category_packs section not object"
            ELSE validate_unique_field_names(secs.items[i])])

\* load_questions on the value q read from questions.json: the message of
\* the error it raises, or NoError when it returns q
load_questions(q) ==
    IF ~({S_base_sections, S_category_packs, S_overrides} \subseteq DOMAIN q.d)
    THEN "Questions schema error"
    ELSE LET base  == q.d[S_base_sections].items
             packs == q.d[S_category_packs].d
             cats  == SortedKeys(DOMAIN packs)
         IN  FirstError(
                 [i \in 1..Len(base) |->
                     IF base[i].t # "dict" THEN "base_sections entry not object"
                     ELSE validate_unique_field_names(base[i])]
                 \o [i \in 1..Len(cats) |-> pack_error(packs[cats[i]])]
                 \o <<validate_visible_if_references(q), validate_insert_afters(q)>>)

(***************************************************************************)
(* The objects json.load makes of the value read from questions.json: one  *)
(* per section list, section, field list, field and insert_after field     *)
(* payload.                                                                *)
(***************************************************************************)
RECURSIVE load_fields(_, _, _, _)
load_fields(st, flds, i, acc) ==
    IF i > Len(flds) THEN Stored(st, acc)
    ELSE LET a == alloc(st, DictObj(flds[i].d))
         IN  load_fields(a.store, flds, i + 1, Append(acc, a.ret))

load_section(st, sec) ==
    LET f == DictGet(sec.d, S_fields)
    IN  IF f.t = "list"
        THEN LET c == load_fields(st, f.items, 1, <<>>)
                 l == alloc(c.store, ListObj(c.ret))
             IN  alloc(l.store, DictObj(DictSet(sec.d, S_fields, PyRef(l.ret))))
        ELSE alloc(st, DictObj(sec.d))

RECURSIVE load_sections(_, _, _, _)
load_sections(st, secs, i, acc) ==
    IF i > Len(secs) THEN alloc(st, ListObj(acc))
    ELSE LET c == load_section(st, secs[i])
         IN  load_sections(c.store, secs, i + 1, Append(acc, c.ret))

\* the packs that are lists, each under its category
RECURSIVE load_packs(_, _, _, _, _)
load_packs(st, packs, cats, i, acc) ==
    IF i > Len(cats) THEN Stored(st, acc)
    ELSE IF packs[cats[i]].t # "list" THEN load_packs(st, packs, cats, i + 1, acc)
    ELSE LET c == load_sections(st, packs[cats[i]].items, 1, <<>>)
         IN  load_packs(c.store, packs, cats, i + 1, (cats[i] :> c.ret) @@ acc)

RECURSIVE load_inserts(_, _, _, _)
load_inserts(st, its, j, acc) ==
    IF j > Len(its) THEN Stored(st, acc)
    ELSE IF its[j].t = "dict" /\ DictGet(its[j].d, S_field).t = "dict"
    THEN LET a == alloc(st, DictObj(its[j].d[S_field].d))
         IN  load_inserts(a.store, its, j + 1,
                          Append(acc, PyDict(DictSet(its[j].d, S_field, PyRef(a.ret)))))
    ELSE load_inserts(st, its, j + 1, Append(acc, its[j]))

RECURSIVE load_rules(_, _, _, _, _)
load_rules(st, ovs, keys, i, acc) ==
    IF i > Len(keys) THEN Stored(st, acc)
    ELSE LET ov == ovs[keys[i]]
         IN  IF ov.t = "dict" /\ DictGet(ov.d, S_insert_after).t = "list"
             THEN LET c == load_inserts(st, ov.d[S_insert_after].items, 1, <<>>)
                  IN  load_rules(c.store, ovs, keys, i + 1,
                                 (keys[i] :> PyDict(DictSet(ov.d, S_insert_after,
                                                            PyList(c.ret)))) @@ acc)
             ELSE load_rules(st, ovs, keys, i + 1, (keys[i] :> ov) @@ acc)

\* the store of a schema q that load_questions returns, and where its parts are
load_schema(q) ==
    LET b == load_sections(<<>>, q.d[S_base_sections].items, 1, <<>>)
        p == load_packs(b.store, q.d[S_category_packs].d,
                        SortedKeys(DOMAIN q.d[S_category_packs].d), 1, <<>>)
        o == load_rules(p.store, q.d[S_overrides].d,
                        SortedKeys(DOMAIN q.d[S_overrides].d), 1, <<>>)
    IN  [store |-> o.store, base |-> b.ret, packs |-> p.ret, ov_map |-> o.ret]

(***************************************************************************)
(* main.py: the composition of the sections of a script run, and the       *)
(* admin-defined fields it adds to them.                                   *)
(***************************************************************************)
S_Delivery == <<"D", "e", "l", "i", "v", "e", "r", "y">>
S_smart_safe_additions ==
    <<"s", "m", "a", "r", "t", "_", "s", "a", "f", "e", "_",
      "a", "d", "d", "i", "t", "i", "o", "n", "s">>
S_delivery_base == <<"d", "e", "l", "i", "v", "e", "r", "y", "_", "b", "a", "s", "e">>
S_title_key == <<"t", "i", "t", "l", "e", "_", "k", "e", "y">>
S_section_delivery ==
    <<"s", "e", "c", "t", "i", "o", "n", ".", "d", "e", "l", "i", "v", "e", "r", "y">>

\* str.lower() and str.replace of one character by another
LowerChar(c) ==
    IF Ord("A") <= Ord(c) /\ Ord(c) <= Ord("Z")
    THEN CharTable[Ord(c) - Ord("A") + Ord("a")] ELSE c
Lower(str) == [i \in 1..Len(str) |-> LowerChar(str[i])]
Replace(str, a, b) == [i \in 1..Len(str) |-> IF str[i] = a THEN b ELSE str[i]]

\* _to_cat_key for a model whose catalog entry names no category
to_cat_key(label) == Replace(Replace(Lower(Strip(label)), "-", "_"), " ", "_")

\* "sections_composed = base_sections + category_sections": a new list of
\* the same sections
compose_sections(st, q, category) ==
    LET pack == IF category.s \in DOMAIN q.packs
                THEN st[q.packs[category.s]].items ELSE <<>>
    IN  alloc(st, ListObj(st[q.base].items \o pack))

S_label == <<"l", "a", "b", "e", "l">>

\* the runtime field _normalize_admin_fields makes of the admin question qn
\* (the admin questions of the model list no options)
admin_field(qn) ==
    LET base == (S_name :> PyStr(Strip(qn.d[S_key].s)))
                @@ (S_type :> PyStr(Strip(IF Truthy(DictGet(qn.d, S_type))
                                          THEN qn.d[S_type].s ELSE S_text)))
                @@ (S_required :> PyBool(Truthy(DictGetOr(qn.d, S_required,
                                                          PyBool(FALSE)))))
        lbl  == IF Truthy(DictGet(qn.d, S_label))
                THEN S_label :> PyStr(Strip(Str(qn.d[S_label]))) ELSE EmptyDict
        vis  == IF DictGet(qn.d, S_visible_if).t = "dict"
                THEN S_visible_if :> qn.d[S_visible_if] ELSE EmptyDict
    IN  PyDict(vis @@ lbl @@ base)

\* an admin question with a key that is not blank
admin_named(qn) ==
    /\ qn.t = "dict"
    /\ Truthy(DictGet(qn.d, S_key))
    /\ Strip(qn.d[S_key].s) # <<>>

\* _normalize_admin_fields(cat_key, section_title, questions_json)
normalize_admin_fields(cat_key, section_title, questions_json) ==
    LET sets == DictGetOr(questions_json.d, cat_key, PyDict(EmptyDict))
        kept == SelectSeq(items_or_empty(DictGet(sets.d, section_title)), admin_named)
    IN  [i \in 1..Len(kept) |-> admin_field(kept[i])]

\* "for sec in sections_used: if ...: target = sec; break": the first of
\* the positions that pass the test, counted from 1; 0 when none does
first_section(hits) ==
    IF hits = {} THEN 0 ELSE CHOOSE k \in hits : \A j \in hits : k <= j

\* "target.setdefault("fields", []).extend(admin_fields_delivery)"
extend_fields(st, target, new_fields) ==
    LET c == load_fields(st, new_fields, 1, <<>>)
    IN  IF S_fields \in DOMAIN c.store[target].d
        THEN LET lst == c.store[target].d[S_fields].n
             IN  set_list(c.store, lst, c.store[lst].items \o c.ret)
        ELSE LET a == alloc(c.store, ListObj(c.ret))
             IN  set_item(a.store, target, S_fields, PyRef(a.ret))

\* main.py: the admin-defined Delivery fields go to the section
\* smart_safe_additions or else to the base delivery block
inject_admin(st, sections_used, admin_fields_delivery) ==
    LET secs == st[sections_used].items
        t1 == first_section({k \in 1..Len(secs) :
                 PyEq(DictGet(st[secs[k]].d, S_key), PyStr(S_smart_safe_additions))})
        t2 == first_section({k \in 1..Len(secs) :
                 \/ PyEq(DictGet(st[secs[k]].d, S_key), PyStr(S_delivery_base))
                 \/ PyEq(DictGet(st[secs[k]].d, S_title_key), PyStr(S_section_delivery))})
    IN  IF admin_fields_delivery = <<>> THEN st
        ELSE IF t1 # 0 THEN extend_fields(st, secs[t1], admin_fields_delivery)
        ELSE IF t2 # 0 THEN extend_fields(st, secs[t2], admin_fields_delivery)
        ELSE st

(***************************************************************************)
(* The inputs of the model: answer values, clause values, conditions and   *)
(* field definitions.                                                      *)
(***************************************************************************)
V_empty == PyStr(<<>>)
V_A == PyStr(<<"A">>)
V_AB == PyStr(<<"A", "B">>)
V_7s == PyStr(<<"7">>)
V_7padded == PyStr(<<" ", "7", " ">>)
V_10s == PyStr(<<"1", "0">>)
V_int5 == PyInt(5)
V_int7 == PyInt(7)
V_true == PyBool(TRUE)
V_listAB == PyList(<<V_A, PyStr(<<"B">>)>>)
V_listNoneA == PyList(<<PyNone, V_A>>)
V_dictA == PyDict(<<"A">> :> PyInt(1))
LIT_toys == <<"t", "o", "y", "s">>
LIT_Acme == <<"A", "c", "m", "e">>
LIT_X1 == <<"X", "1">>
LIT_foo == <<"f", "o", "o">>
S_f == <<"f">>
V_toys == PyStr(LIT_toys)
V_Acme == PyStr(LIT_Acme)
V_X1 == PyStr(LIT_X1)

\* the values an answer can hold
AnswerValues ==
    {PyNone, V_empty, V_A, V_7s, V_7padded, V_10s, V_int7, V_true, V_listAB}

\* the values a clause can compare with
ClauseValues ==
    {PyNone, V_empty, V_A, V_AB, V_7s, V_10s, V_int5, V_int7, V_true,
     V_listAB, V_listNoneA, V_dictA}

OpNames == {S_eq, S_neq, S_in, S_nin, S_gt, S_gte, S_lt, S_lte, S_contains}
CompareOps == {S_gt, S_gte, S_lt, S_lte}
\* the values of the key op: the nine operators, an unknown name, null
OpValues == {PyStr(o) : o \in OpNames} \cup {PyStr(LIT_foo), PyNone}

ClauseFields == {S_f, S_v_category}

Clause3(f, op, v) == PyDict((S_field :> PyStr(f)) @@ (S_op :> op) @@ (S_value :> v))
ClauseNoOp(f, v) == PyDict((S_field :> PyStr(f)) @@ (S_value :> v))
ClauseNoValue(f, op) == PyDict((S_field :> PyStr(f)) @@ (S_op :> op))
\* the legacy form {field, equals}
ClauseLegacy(f, v) == PyDict((S_field :> PyStr(f)) @@ (S_equals :> v))

Clauses ==
    {Clause3(f, op, v) : f \in ClauseFields, op \in OpValues, v \in ClauseValues}
    \cup {ClauseNoOp(f, v) : f \in ClauseFields, v \in ClauseValues}
    \cup {ClauseNoValue(f, op) : f \in ClauseFields, op \in OpValues}
    \cup {ClauseLegacy(S_f, V_A), PyDict(S_field :> PyNone)}

\* absent or falsy conditions
FalsyConds == {PyNone, PyDict(EmptyDict), PyList(<<>>), V_empty, PyInt(0), PyBool(FALSE)}

\* truthy conditions that are no clause, no group and no list
UnknownConds == {PyDict(S_equals :> V_A), PyDict(S_op :> PyStr(S_eq)), PyStr(<<"x">>),
                 V_int5, V_true}

\* the sub-expressions groups are built from: a clause on an answer, an
\* Any-group that is always false, a shape that is always true
Leaves == {Clause3(S_f, PyStr(S_eq), V_A), PyDict(S_any :> PyList(<<>>)), PyStr(<<"x">>)}

Kinds == {"all", "any", "list"}
GroupOf(kind, subs) ==
    CASE kind = "all" -> PyDict(S_all :> PyList(subs))
      [] kind = "any" -> PyDict(S_any :> PyList(subs))
      [] kind = "list" -> PyList(subs)

SeqsUpTo(S, n) == UNION {[1..k -> S] : k \in 0..n}
InsertAt(s, i, x) ==
    IF i > Len(s) THEN Append(s, x)
    ELSE SubSeq(s, 1, i - 1) \o <<x>> \o SubSeq(s, i, Len(s))

\* chains of groups of depth at most d
RECURSIVE Nested(_)
Nested(d) ==
    IF d = 0 THEN {}
    ELSE {GroupOf(k, s) : k \in Kinds, s \in SeqsUpTo(Leaves \cup Nested(d - 1), 1)}

\* groups of at most MaxSubs sub-expressions, nested at most MaxDepth deep
Groups ==
    {GroupOf(k, s) : k \in Kinds, s \in SeqsUpTo(Leaves, MaxSubs)}
    \cup {GroupOf(k, InsertAt(s, i, g)) :
            k \in Kinds,
            g \in Nested(MaxDepth - 1),
            s \in SeqsUpTo(Leaves, MaxSubs - 1),
            i \in 1..MaxSubs}
    \cup {PyDict(S_all :> PyNone), PyDict(S_any :> PyNone),
          PyDict((S_all :> PyList(<<>>)) @@ (S_any :> PyList(<<PyStr(<<"x">>)>>)))}

Conds == FalsyConds \cup UnknownConds \cup Clauses \cup Groups

S_w == <<"w">>
FieldWith(c) == PyDict((S_name :> PyStr(S_w)) @@ (S_visible_if :> c))
FieldPlain == PyDict(S_name :> PyStr(S_w))

\* the conditions of the field definitions
FieldConds ==
    FalsyConds \cup UnknownConds \cup Groups
    \cup {ClauseLegacy(S_f, V_A), Clause3(S_f, PyStr(S_eq), V_A),
          Clause3(S_v_category, PyStr(S_neq), V_toys),
          Clause3(S_f, PyStr(S_gt), V_int5)}
Fields == {FieldWith(c) : c \in FieldConds} \cup {FieldPlain}

Categories == {PyNone, V_toys}
Makes == {PyNone, V_Acme}
Models == {PyNone, V_X1}

(***************************************************************************)
(* The session: the renderer writes answers, and the renderer and the      *)
(* exporter take visibility decisions on the answer map.                   *)
(***************************************************************************)
NoCall ==
    [op |-> "none", arg |-> PyNone, category |-> PyNone, make |-> PyNone,
     model |-> PyNone, before |-> EmptyDict, ret |-> FALSE, raised |-> FALSE]

NoMerge == empty_out
\* the content of data/version.json
VersionFile(v, ts) == [v |-> v, ts |-> ts]
\* no version file yet (read as {"v": 0, "ts": 0}), no admin session
NoVer == [file |-> VersionFile(0, 0), sess |-> <<>>, done |-> <<>>]
\* no schema is loaded into the store
NoQdef == [raw |-> PyNone, base |-> 0, packs |-> <<>>]

InitEval ==
    /\ answers = EmptyDict
    /\ pc = "idle"
    /\ call = NoCall
    /\ ov_map = EmptyDict
    /\ merged = NoMerge
    /\ store = <<>>
    /\ qdef = NoQdef
    /\ outs = <<>>
    /\ trace = <<>>
    /\ ver = NoVer

\* render_section: "answers[name] = val"
SetAnswer ==
    /\ pc = "idle"
    /\ \E v \in AnswerValues : answers' = DictSet(answers, S_f, v)
    /\ UNCHANGED <<pc, call, ov_map, merged, store, qdef, outs, trace, ver>>

\* main.py: a rerun of the script starts from "answers = {}"
Rerun ==
    /\ pc = "idle"
    /\ answers # EmptyDict
    /\ answers' = EmptyDict
    /\ UNCHANGED <<pc, call, ov_map, merged, store, qdef, outs, trace, ver>>

Called(op, arg, category, make, model, ret, raised) ==
    [op |-> op, arg |-> arg, category |-> category, make |-> make,
     model |-> model, before |-> answers, ret |-> ret, raised |-> raised]

\* a call of evaluate on the answer map
CallEvaluate ==
    /\ pc = "idle"
    /\ \E c \in Conds, category \in Categories, make \in Makes, model \in Models :
         LET r == evaluate(c, 1, <<answers>>, category, make, model)
         IN  /\ answers' = r.heap[1]
             /\ call' = Called("evaluate", c, category, make, model, r.ret, FALSE)
    /\ pc' = "called"
    /\ UNCHANGED <<ov_map, merged, store, qdef, outs, trace, ver>>

\* render_section: the renderer's decision for a field
CallIsVisible ==
    /\ pc = "idle"
    /\ \E f \in Fields, category \in Categories, make \in Makes, model \in Models :
         LET r == is_visible(f, 1, <<answers>>, category, make, model)
         IN  /\ answers' = r.heap[1]
             /\ call' = Called("is_visible", f, category, make, model, r.ret, FALSE)
    /\ pc' = "called"
    /\ UNCHANGED <<ov_map, merged, store, qdef, outs, trace, ver>>

\* write_section_to_pdf_QA: the exporter's decision for a field
ExportField ==
    /\ pc = "idle"
    /\ \E f \in Fields, category \in Categories, make \in Makes, model \in Models :
         LET r == export_visible(f, 1, <<answers>>, category, make, model)
         IN  /\ answers' = r.heap[1]
             /\ call' = Called("export", f, category, make, model, r.ret, r.raised)
    /\ pc' = "called"
    /\ UNCHANGED <<ov_map, merged, store, qdef, outs, trace, ver>>

\* the caller goes on
Return ==
    /\ pc = "called"
    /\ pc' = "idle"
    /\ call' = NoCall
    /\ UNCHANGED <<answers, ov_map, merged, store, qdef, outs, trace, ver>>

NextEval == SetAnswer \/ Rerun \/ CallEvaluate \/ CallIsVisible \/ ExportField \/ Return

SpecEval == InitEval /\ [][NextEval]_vars

(***************************************************************************)
(* Properties of the visibility evaluator and of its two consumers.        *)
(***************************************************************************)
HasKey(c, k) == c.t = "dict" /\ k \in DOMAIN c.d

\* {all: [e1..en]}
IsAllGroup(c) == HasKey(c, S_all) /\ c.d[S_all].t = "list"
\* {any: [e1..en]}
IsAnyGroup(c) == HasKey(c, S_any) /\ ~HasKey(c, S_all) /\ c.d[S_any].t = "list"
\* a clause: a dict with the key field that is no group
IsClause(c) == HasKey(c, S_field) /\ ~HasKey(c, S_all) /\ ~HasKey(c, S_any)
\* a truthy condition that is no clause, no group and no list
IsUnknownShape(c) ==
    /\ c \notin FalsyConds
    /\ c.t # "list"
    /\ ~HasKey(c, S_field) /\ ~HasKey(c, S_all) /\ ~HasKey(c, S_any)
IsGroupShape(c) == IsAllGroup(c) \/ IsAnyGroup(c) \/ c.t = "list"

GroupSubs(c) ==
    IF c.t = "list" THEN c.items
    ELSE IF HasKey(c, S_all) THEN c.d[S_all].items
    ELSE c.d[S_any].items

EmptyAny == PyDict(S_any :> PyList(<<>>))

\* the result of evaluate on a condition, with the inputs of the last call
ResultOn(c) ==
    evaluate(c, 1, <<call.before>>, call.category, call.make, call.model).ret

\* the context of the last call: the answers, and the virtual fields that
\* were passed
VirtualOf(name) ==
    CASE name = S_v_category -> call.category
      [] name = S_v_make     -> call.make
      [] name = S_v_model    -> call.model
      [] OTHER               -> PyNone
InContext(fld) ==
    /\ fld.t = "str"
    /\ \/ fld.s \in DOMAIN call.before
       \/ VirtualOf(fld.s).t # "none"
ContextValue(fld) ==
    IF fld.t # "str" THEN PyNone
    ELSE IF VirtualOf(fld.s).t # "none" THEN VirtualOf(fld.s)
    ELSE DictGet(call.before, fld.s)

ClauseField == DictGet(call.arg.d, S_field)
ClauseValue == DictGet(call.arg.d, S_value)
ClauseHasOp(name) == HasKey(call.arg, S_op) /\ OpIs(call.arg.d[S_op], name)
\* the clause of the last call with another operator
WithOp(name) == PyDict(DictSet(call.arg.d, S_op, PyStr(name)))

EvaluatedClause == call.op = "evaluate" /\ IsClause(call.arg)

\* C1: on the same answers, category, make and model the renderer
\* (is_visible) and the exporter (evaluate when visible_if is truthy,
\* field_visible otherwise) take the same visibility decision for a field.
Thm_C1_RendererExporterAgree ==
    /\ call.op = "export" =>
         /\ ~call.raised
         /\ call.ret = is_visible(call.arg, 1, <<call.before>>, call.category,
                                  call.make, call.model).ret
    /\ call.op = "is_visible" =>
         LET e == export_visible(call.arg, 1, <<call.before>>, call.category,
                                 call.make, call.model)
         IN  ~e.raised /\ e.ret = call.ret

Wit_C1_ExportHidesClauseField ==
    /\ call.op = "export"
    /\ IsClause(DictGet(call.arg.d, S_visible_if))
    /\ S_f \in DOMAIN call.before
    /\ call.category # PyNone
    /\ ~call.ret

\* C2: evaluate answers true for every absent or falsy condition (None, {},
\* [], "", 0, False), whatever the answers, category, make and model; so does
\* is_visible for a field without visible_if.
Thm_C2_FalsyConditionVisible ==
    /\ (call.op = "evaluate" /\ call.arg \in FalsyConds) => call.ret
    /\ (call.op = "is_visible" /\ DictGet(call.arg.d, S_visible_if) \in FalsyConds)
         => call.ret

Wit_C2_ZeroConditionWithContext ==
    /\ call.op = "evaluate"
    /\ call.arg = PyInt(0)
    /\ call.category = V_toys /\ call.make = V_Acme /\ call.model = V_X1
    /\ S_f \in DOMAIN call.before
    /\ call.ret

\* C3: for {all: [e1..en]} and for a bare list [e1..en] evaluate is true iff
\* evaluate(ei) is true for every i (true for the empty list), at every depth
\* of nesting.
Thm_C3_AllGroupIsConjunction ==
    (call.op = "evaluate" /\ (IsAllGroup(call.arg) \/ call.arg.t = "list")) =>
        (call.ret <=>
            \A i \in 1..Len(GroupSubs(call.arg)) : ResultOn(GroupSubs(call.arg)[i]))

Wit_C3_NestedAllFailsOnSecond ==
    /\ call.op = "evaluate"
    /\ IsAllGroup(call.arg)
    /\ Len(GroupSubs(call.arg)) = 2
    /\ IsGroupShape(GroupSubs(call.arg)[2])
    /\ GroupSubs(call.arg)[2] # EmptyAny
    /\ ResultOn(GroupSubs(call.arg)[1])
    /\ ~call.ret

\* C4: for {any: [e1..en]} evaluate is true iff evaluate(ei) is true for at
\* least one i; an empty Any-group is false, also as a sub-expression of
\* another group.
Thm_C4_AnyGroupIsDisjunction ==
    /\ (call.op = "evaluate" /\ IsAnyGroup(call.arg)) =>
         (call.ret <=>
            \E i \in 1..Len(GroupSubs(call.arg)) : ResultOn(GroupSubs(call.arg)[i]))
    /\ (call.op = "evaluate" /\ call.arg = EmptyAny) => ~call.ret
    /\ (/\ call.op = "evaluate"
        /\ IsAllGroup(call.arg) \/ call.arg.t = "list"
        /\ \E i \in 1..Len(GroupSubs(call.arg)) : GroupSubs(call.arg)[i] = EmptyAny)
         => ~call.ret
    /\ (/\ call.op = "evaluate"
        /\ IsAnyGroup(call.arg)
        /\ \A i \in 1..Len(GroupSubs(call.arg)) : GroupSubs(call.arg)[i] = EmptyAny)
         => ~call.ret

Wit_C4_AnyPassesOnSecond ==
    /\ call.op = "evaluate"
    /\ IsAnyGroup(call.arg)
    /\ Len(GroupSubs(call.arg)) = 2
    /\ GroupSubs(call.arg)[1] = EmptyAny
    /\ IsClause(GroupSubs(call.arg)[2])
    /\ call.ret

\* C5: a clause with op eq, or without op, is true iff the value of the field
\* in the context equals the clause value, a field missing from the context
\* counting as None: a missing field equals neither "" nor any value other
\* than None; neq is the negation of eq.
Thm_C5_EqTreatsAbsentAsNone ==
    /\ (EvaluatedClause /\ (ClauseHasOp(S_eq) \/ ~HasKey(call.arg, S_op))) =>
         /\ call.ret = PyEq(ContextValue(ClauseField), ClauseValue)
         /\ ~InContext(ClauseField) => (call.ret <=> ClauseValue = PyNone)
    /\ (EvaluatedClause /\ ClauseHasOp(S_neq)) =>
         call.ret = ~ResultOn(WithOp(S_eq))

Wit_C5_AbsentIsNotEmptyString ==
    /\ EvaluatedClause
    /\ ClauseHasOp(S_eq)
    /\ ClauseField = PyStr(S_f)
    /\ S_f \notin DOMAIN call.before
    /\ ClauseValue = V_empty
    /\ ~call.ret

\* C6: a clause with op nin is true when the field is missing from the
\* context and the value is a list without None, and true for every context
\* when the value is None or missing; nin is the negation of in.
Thm_C6_NinNegatesIn ==
    (EvaluatedClause /\ ClauseHasOp(S_nin)) =>
        /\ (/\ ~InContext(ClauseField)
            /\ ClauseValue.t = "list"
            /\ \A i \in 1..Len(ClauseValue.items) : ClauseValue.items[i] # PyNone)
             => call.ret
        /\ ClauseValue = PyNone => call.ret
        /\ call.ret = ~ResultOn(WithOp(S_in))

Wit_C6_AbsentNotInList ==
    /\ EvaluatedClause
    /\ ClauseHasOp(S_nin)
    /\ ClauseField = PyStr(S_f)
    /\ S_f \notin DOMAIN call.before
    /\ ClauseValue = V_listAB
    /\ call.ret

\* the number a value stands for: a number, a bool as 0/1, a numeric str that
\* is not blank
StandsForNumber(v) ==
    \/ v.t \in {"int", "bool"}
    \/ v.t = "str" /\ \E k \in -99..99 : Strip(v.s) = IntToStr(k)
NumberOf(v) ==
    IF v.t = "int" THEN v.n
    ELSE IF v.t = "bool" THEN (IF v.b THEN 1 ELSE 0)
    ELSE CHOOSE k \in -99..99 : Strip(v.s) = IntToStr(k)
TextOf(v) == IF v = PyNone THEN <<>> ELSE Str(v)
Compared(name, less, equal) ==
    CASE name = S_gt  -> ~less /\ ~equal
      [] name = S_gte -> ~less
      [] name = S_lt  -> less
      [] name = S_lte -> less \/ equal

\* C7: for gt, gte, lt, lte the result is the numeric comparison when both
\* the context value and the clause value stand for numbers, and otherwise
\* the lexicographic comparison of their str, None taken as "".
Thm_C7_NumericElseLexicographic ==
    \A name \in CompareOps :
        (EvaluatedClause /\ ClauseHasOp(name)) =>
            LET l == ContextValue(ClauseField)
                r == ClauseValue
            IN  IF StandsForNumber(l) /\ StandsForNumber(r)
                THEN call.ret = Compared(name, NumberOf(l) < NumberOf(r),
                                         NumberOf(l) = NumberOf(r))
                ELSE call.ret = Compared(name, StrLess(TextOf(l), TextOf(r)),
                                         TextOf(l) = TextOf(r))

Wit_C7_PaddedNumeralComparesAsNumber ==
    /\ EvaluatedClause
    /\ ClauseHasOp(S_gte)
    /\ ClauseField = PyStr(S_f)
    /\ DictGet(call.before, S_f) = V_7padded
    /\ ClauseValue = V_int7
    /\ call.ret

\* C8: a truthy condition that is no clause, no group and no list evaluates
\* to true for every context, also as a sub-expression of a group.
Thm_C8_UnknownShapeVisible ==
    /\ (call.op = "evaluate" /\ IsUnknownShape(call.arg)) => call.ret
    /\ (/\ call.op = "evaluate"
        /\ IsAllGroup(call.arg) \/ call.arg.t = "list"
        /\ \A i \in 1..Len(GroupSubs(call.arg)) : IsUnknownShape(GroupSubs(call.arg)[i]))
         => call.ret
    /\ (/\ call.op = "evaluate"
        /\ IsAnyGroup(call.arg)
        /\ \E i \in 1..Len(GroupSubs(call.arg)) : IsUnknownShape(GroupSubs(call.arg)[i]))
         => call.ret

Wit_C8_UnknownDictInsideGroup ==
    /\ call.op = "evaluate"
    /\ IsAnyGroup(call.arg)
    /\ Len(GroupSubs(call.arg)) = 2
    /\ GroupSubs(call.arg)[1] = EmptyAny
    /\ IsUnknownShape(GroupSubs(call.arg)[2])
    /\ call.ret

\* C9: evaluate and is_visible leave the answer map as it was: the same keys
\* with the same values, and none of __category__, __make__, __model__ added.
Thm_C9_AnswersUnchanged ==
    call.op \in {"evaluate", "is_visible"} =>
        /\ answers = call.before
        /\ DOMAIN answers \cap {S_v_category, S_v_make, S_v_model} = {}

Wit_C9_NestedGroupWithVirtualFields ==
    /\ call.op = "evaluate"
    /\ IsAllGroup(call.arg)
    /\ \E i \in 1..Len(GroupSubs(call.arg)) :
         /\ IsGroupShape(GroupSubs(call.arg)[i])
         /\ GroupSubs(call.arg)[i] # EmptyAny
         /\ GroupSubs(GroupSubs(call.arg)[i]) # <<>>
    /\ call.category = V_toys /\ call.make = V_Acme /\ call.model = V_X1
    /\ S_f \in DOMAIN call.before

(***************************************************************************)
(* The override rules of a loaded questions.json and the calls of          *)
(* merge_overrides on them.                                                *)
(***************************************************************************)
LIT_tools == <<"t", "o", "o", "l", "s">>
LIT_Other == <<"O", "t", "h", "e", "r">>
LIT_X2 == <<"X", "2">>
LIT_X1_padded == <<"X", "1", " ">>
S_x == <<"x">>
S_y == <<"y">>
S_brand == <<"b", "r", "a", "n", "d">>
S_color == <<"c", "o", "l", "o", "r">>
S_batteries == <<"b", "a", "t", "t", "e", "r", "i", "e", "s">>

NewField(n) == PyDict((S_name :> PyStr(n)) @@ (S_type :> PyStr(S_text)))
Directive(after, fld) == PyDict((S_after :> PyStr(after)) @@ (S_field :> fld))

Rule_x1 == PyDict(S_defaults :> PyDict(S_x :> PyInt(1)))
Rule_x2 == PyDict(S_defaults :> PyDict(S_x :> PyInt(2)))
Rule_x3_y1 ==
    PyDict((S_defaults :> PyDict((S_x :> PyInt(3)) @@ (S_y :> PyInt(1))))
           @@ (S_required :> PyList(<<PyStr(S_brand)>>)))
Rule_y2_hide ==
    PyDict((S_defaults :> PyDict(S_y :> PyInt(2)))
           @@ (S_hide_fields :> PyList(<<PyStr(S_color)>>))
           @@ (S_insert_after :>
                 PyList(<<Directive(S_brand, NewField(S_batteries)),
                          PyDict(S_field :> NewField(S_x)),
                          Directive(S_color, PyStr(S_text))>>)))
Rule_malformed ==
    PyDict((S_defaults :> PyList(<<PyStr(S_x)>>)) @@ (S_required :> PyStr(S_brand)))
Rule_empty == PyDict(EmptyDict)
Rule_hide_brand ==
    PyDict((S_hide_fields :> PyList(<<PyStr(S_brand), PyStr(S_color)>>))
           @@ (S_required :> PyList(<<PyStr(S_color), PyStr(S_brand)>>))
           @@ (S_insert_after :> PyList(<<Directive(S_color, NewField(S_y))>>)))

\* entries that are no object, that have a null target, and a sound one
Rule_bad_inserts ==
    PyDict(S_insert_after :>
             PyList(<<PyStr(S_text),
                      PyDict((S_after :> PyNone) @@ (S_field :> NewField(S_x))),
                      Directive(S_brand, NewField(S_color))>>))

Rules ==
    {Rule_x1, Rule_x2, Rule_x3_y1, Rule_y2_hide, Rule_malformed, Rule_empty,
     Rule_hide_brand, Rule_bad_inserts}

\* the scope keys of the rules: the four scopes of toys / Acme / X1 and a
\* scope of another category
Key_category_toys == S_category_colon \o LIT_toys
Key_category_tools == S_category_colon \o LIT_tools
Key_make_Acme == S_make_colon \o LIT_Acme
Key_model_Acme_X1 == S_model_colon \o LIT_Acme \o S_pipe \o LIT_X1
RuleKeys == {S_star, Key_category_toys, Key_make_Acme, Key_model_Acme_X1}

Rule_tools == PyDict((S_defaults :> PyDict(S_x :> PyInt(9)))
                    @@ (S_required :> PyList(<<PyStr(S_y)>>)))

\* the override maps: any rule, or none, under each of the four keys and
\* the rule of the other category or none
OvMaps ==
    {[k \in K |-> f[k]] @@ o :
        K \in SUBSET RuleKeys,
        f \in [RuleKeys -> Rules],
        o \in {EmptyDict, Key_category_tools :> Rule_tools}}

MergeCategories == {V_toys, PyStr(LIT_tools)}
MergeMakes == {V_Acme, PyStr(LIT_Other)}
\* a model label with a trailing blank resolves to the key of the label without
MergeModels == {V_X1, PyStr(LIT_X2), PyStr(LIT_X1_padded)}

InitMerge ==
    /\ answers = EmptyDict
    /\ pc = "idle"
    /\ call = NoCall
    /\ ov_map \in OvMaps
    /\ merged = NoMerge
    /\ store = <<>>
    /\ qdef = NoQdef
    /\ outs = <<>>
    /\ trace = <<>>
    /\ ver = NoVer

\* main.py: "merged = merge_overrides(qdef, category=..., make=..., model=...)"
CallMerge ==
    /\ pc = "idle"
    /\ \E category \in MergeCategories, make \in MergeMakes, model \in MergeModels :
         /\ merged' = merge_overrides(ov_map, category, make, model)
         /\ call' = Called("merge_overrides", PyNone, category, make, model,
                           TRUE, FALSE)
    /\ pc' = "called"
    /\ UNCHANGED <<answers, ov_map, store, qdef, outs, trace, ver>>

\* the script run ends; the next run merges again
ReturnMerge ==
    /\ pc = "called"
    /\ pc' = "idle"
    /\ call' = NoCall
    /\ merged' = NoMerge
    /\ UNCHANGED <<answers, ov_map, store, qdef, outs, trace, ver>>

NextMerge == CallMerge \/ ReturnMerge

SpecMerge == InitMerge /\ [][NextMerge]_vars

(***************************************************************************)
(* Properties of the override resolver.                                    *)
(***************************************************************************)
\* the scope keys of the last call, lowest precedence first; a key is looked
\* up without the blanks around it
PrecedenceKeys ==
    << S_star,
       Strip(S_category_colon \o call.category.s),
       Strip(S_make_colon \o call.make.s),
       Strip(S_model_colon \o call.make.s \o S_pipe \o call.model.s) >>

\* the rule of the i-th scope, if the override map has one
MatchingRule(i) == DictGet(ov_map, PrecedenceKeys[i])
\* the defaults the i-th scope defines
DefaultsOf(i) ==
    IF MatchingRule(i).t = "dict" /\ DictGet(MatchingRule(i).d, S_defaults).t = "dict"
    THEN MatchingRule(i).d[S_defaults].d
    ELSE EmptyDict
\* the scopes that define the default k
ScopesDefining(k) == {i \in 1..4 : k \in DOMAIN DefaultsOf(i)}
Highest(S) == CHOOSE i \in S : \A j \in S : j <= i

\* C10: the merged defaults hold, for every key that matching scopes define,
\* the value of the matching scope of highest precedence in the order
\* * < category < make < model; a key of one scope keeps that scope's value.
Thm_C10_DefaultsHighestScopeWins ==
    call.op = "merge_overrides" =>
        /\ DOMAIN merged.defaults = UNION {DOMAIN DefaultsOf(i) : i \in 1..4}
        /\ \A k \in DOMAIN merged.defaults :
             merged.defaults[k] = DefaultsOf(Highest(ScopesDefining(k)))[k]

Wit_C10_MakeOverridesWildcard ==
    /\ call.op = "merge_overrides"
    /\ DictGet(ov_map, S_star) = Rule_x1
    /\ DictGet(ov_map, Key_make_Acme) = Rule_x2
    /\ Key_model_Acme_X1 \notin DOMAIN ov_map
    /\ call.make = V_Acme
    /\ merged.defaults[S_x] = PyInt(2)

\* the names the i-th scope lists under the key k
NamesOf(i, k) ==
    IF MatchingRule(i).t = "dict" /\ DictGet(MatchingRule(i).d, k).t = "list"
    THEN {MatchingRule(i).d[k].items[j].s : j \in 1..Len(MatchingRule(i).d[k].items)}
    ELSE {}
\* the orders in which four scopes can be visited
Permutations4 == {p \in [1..4 -> 1..4] : \A i, j \in 1..4 : p[i] = p[j] => i = j}
\* the merge of the scopes of the last call visited in the order p
MergedInOrder(p) ==
    merge_loop(empty_out, ov_map,
               [i \in 1..4 |-> scopes(call.category, call.make, call.model)[p[i]]], 1)

\* C11: the merged required and hide_fields sets are exactly the unions of
\* the required and hide_fields lists of the matching scopes, and of no
\* other scope; they do not depend on the order in which scopes are visited.
Thm_C11_RequiredAndHideAreUnions ==
    call.op = "merge_overrides" =>
        /\ merged.required = UNION {NamesOf(i, S_required) : i \in 1..4}
        /\ merged.hide_fields = UNION {NamesOf(i, S_hide_fields) : i \in 1..4}
        /\ \A p \in Permutations4 :
             LET m == MergedInOrder(p)
             IN  m.required = merged.required /\ m.hide_fields = merged.hide_fields

Wit_C11_TwoScopesOneOutsider ==
    /\ call.op = "merge_overrides"
    /\ call.category = V_toys /\ call.make = V_Acme
    /\ DictGet(ov_map, S_star) = Rule_y2_hide
    /\ DictGet(ov_map, Key_category_toys) = Rule_x3_y1
    /\ DictGet(ov_map, Key_make_Acme) = Rule_hide_brand
    /\ DictGet(ov_map, Key_category_tools) = Rule_tools
    /\ merged.required = {S_brand, S_color}
    /\ merged.hide_fields = {S_brand, S_color}

\* the insert_after entries the i-th scope lists, in its order
InsertsOf(i) ==
    IF MatchingRule(i).t = "dict" /\ DictGet(MatchingRule(i).d, S_insert_after).t = "list"
    THEN MatchingRule(i).d[S_insert_after].items
    ELSE <<>>
\* an entry is a directive when it is an object with the keys after and field
HasBothKeys(e) == e.t = "dict" /\ {S_after, S_field} \subseteq DOMAIN e.d
\* the directives of the i-th scope, in its order
DirectivesOf(i) == SelectSeq(InsertsOf(i), HasBothKeys)

\* C12: the merged insert_after list is the directives of the matching
\* scopes in the order *, category, make, model, each scope's directives in
\* that scope's own order: none is reordered, duplicated or merged.
Thm_C12_InsertsConcatenateInScopeOrder ==
    call.op = "merge_overrides" =>
        merged.insert_after =
            DirectivesOf(1) \o DirectivesOf(2) \o DirectivesOf(3) \o DirectivesOf(4)

Wit_C12_WildcardThenCategoryDirectives ==
    /\ call.op = "merge_overrides"
    /\ call.category = V_toys
    /\ DictGet(ov_map, S_star) = Rule_hide_brand
    /\ DictGet(ov_map, Key_category_toys) = Rule_y2_hide
    /\ merged.insert_after =
         << Directive(S_color, NewField(S_y)),
            Directive(S_brand, NewField(S_batteries)),
            Directive(S_color, PyStr(S_text)) >>

\* a well-formed directive: an object whose after names a target and whose
\* field payload is an object
WellFormed(e) ==
    /\ e.t = "dict"
    /\ DictGet(e.d, S_after).t = "str" /\ DictGet(e.d, S_after).s # <<>>
    /\ DictGet(e.d, S_field).t = "dict"
\* the number of times e occurs in the list lst
Occurrences(lst, e) == Cardinality({j \in 1..Len(lst) : lst[j] = e})
\* what the entries of all matching scopes are, lowest scope first
AllInserts == InsertsOf(1) \o InsertsOf(2) \o InsertsOf(3) \o InsertsOf(4)

S_general == <<"g", "e", "n", "e", "r", "a", "l">>
S_toys_pack == <<"t", "o", "y", "s", "_", "p", "a", "c", "k">>
S_tools_pack == <<"t", "o", "o", "l", "s", "_", "p", "a", "c", "k">>
S_warning == <<"w", "a", "r", "n", "i", "n", "g">>
S_red == <<"r", "e", "d">>
S_notes_padded == <<"n", "o", "t", "e", "s", " ">>
S_notes == <<"n", "o", "t", "e", "s">>

F_brand == NewField(S_brand)
F_brand_required == PyDict(DictSet(F_brand.d, S_required, PyBool(TRUE)))
F_color == PyDict(DictSet(NewField(S_color).d, S_required, PyBool(FALSE)))
F_warning ==
    PyDict((S_name :> PyStr(S_warning)) @@ (S_type :> PyStr(S_text))
           @@ (S_required :> PyBool(TRUE))
           @@ (S_visible_if :> Clause3(S_color, PyStr(S_eq), PyStr(S_red))))
F_unnamed == PyDict(S_type :> PyStr(S_text))

Sec(key, flds) == PyDict((S_key :> PyStr(key)) @@ (S_fields :> PyList(flds)))
SecNoFields(key) == PyDict(S_key :> PyStr(key))

BaseOptions ==
    { <<>>,
      << Sec(S_general, <<F_brand, F_color, F_warning>>) >>,
      << Sec(S_general, <<F_brand, F_color>>),
         Sec(S_delivery_base, <<F_brand_required, F_warning>>) >>,
      << Sec(S_general, <<F_color, F_brand>>), SecNoFields(S_delivery_base) >>,
      << Sec(S_general, <<F_brand, F_brand>>) >>,
      << Sec(S_general, <<F_brand, F_unnamed>>) >> }

PackOptions ==
    { EmptyDict,
      (LIT_toys :> PyList(<< Sec(S_toys_pack, <<NewField(S_y)>>),
                             SecNoFields(S_smart_safe_additions) >>))
        @@ (LIT_tools :> PyList(<< Sec(S_tools_pack, <<NewField(S_x)>>) >>)) }

\* the admin question set of the category toys
AdminSets == PyDict(S_Delivery :> PyList(<< PyDict(S_key :> PyStr(S_notes_padded)) >>))

\* directives: a plain one, one whose new field has the name of its target,
\* one whose target is a field of the tools pack only, one whose target is
\* a field another directive inserts, one whose new field has no name, and
\* one without a target
Directives ==
    { Directive(S_brand, NewField(S_batteries)),
      Directive(S_brand, F_brand),
      Directive(S_x, F_color),
      Directive(S_batteries, NewField(S_y)),
      Directive(S_color, F_unnamed),
      Directive(<<>>, NewField(S_x)) }

NameLists == { <<>>, <<S_color>>, <<S_brand, S_batteries>> }
Names(lst) == PyList([i \in 1..Len(lst) |-> PyStr(lst[i])])

ToysRules ==
    { PyDict((S_hide_fields :> Names(h)) @@ (S_required :> Names(r))
             @@ (S_insert_after :> PyList(i))) :
        h \in NameLists, r \in NameLists, i \in SeqsUpTo(Directives, 2) }

StarRules ==
    { PyDict(S_required :> Names(<<S_brand>>)),
      PyDict(S_insert_after :> PyList(<<Directive(S_brand, NewField(S_batteries))>>)) }

OverrideOptions ==
    {o1 @@ o2 : o1 \in {EmptyDict} \cup {S_star :> r : r \in StarRules},
                o2 \in {EmptyDict} \cup {Key_category_toys :> r : r \in ToysRules}}

Schemas ==
    { PyDict((S_base_sections :> PyList(b)) @@ (S_category_packs :> PyDict(p))
             @@ (S_overrides :> PyDict(o)) @@ (LIT_toys :> AdminSets)) :
        b \in BaseOptions, p \in PackOptions, o \in OverrideOptions }

ComposeCategories == {V_toys, PyStr(LIT_tools)}

(***************************************************************************)
(* A session on a schema: load_questions, then script runs that compose    *)
(* the sections of the selected category.                                  *)
(***************************************************************************)
\* the value of the object at r: lists and dicts with their parts in place
\* of the references
RECURSIVE Value(_, _)
Value(st, r) ==
    IF st[r].kind = "list"
    THEN PyList([i \in 1..Len(st[r].items) |-> Value(st, st[r].items[i])])
    ELSE PyDict([k \in DOMAIN st[r].d |->
                    IF st[r].d[k].t = "ref" THEN Value(st, st[r].d[k].n)
                    ELSE st[r].d[k]])

InitCompose ==
    /\ answers = EmptyDict
    /\ pc = "start"
    /\ call = NoCall
    /\ ov_map = EmptyDict
    /\ merged = NoMerge
    /\ store = <<>>
    /\ qdef \in {[raw |-> q, base |-> 0, packs |-> <<>>] : q \in Schemas}
    /\ outs = <<>>
    /\ trace = <<>>
    /\ ver = NoVer

\* main.py: "qdef = load_questions(version)"
LoadQuestions ==
    /\ pc = "start"
    /\ IF load_questions(qdef.raw) = NoError
       THEN LET l == load_schema(qdef.raw)
            IN  /\ store' = l.store
                /\ qdef' = [raw |-> qdef.raw, base |-> l.base, packs |-> l.packs]
                /\ ov_map' = l.ov_map
                /\ pc' = "idle"
                /\ call' = Called("load_questions", PyNone, PyNone, PyNone, PyNone,
                                  TRUE, FALSE)
       ELSE /\ pc' = "rejected"
            /\ call' = Called("load_questions", PyNone, PyNone, PyNone, PyNone,
                              FALSE, TRUE)
            /\ UNCHANGED <<store, qdef, ov_map>>
    /\ UNCHANGED <<answers, merged, outs, trace, ver>>

\* main.py: a script run starts with an empty answer map (the locals of the
\* previous run are gone), then
\* "sections_used = apply_field_overrides(sections_composed, merged)"
Compose ==
    /\ pc = "idle"
    /\ Len(outs) < MaxRuns
    /\ \E category \in ComposeCategories :
         LET c == compose_sections(store, qdef, category)
             m == merge_overrides(ov_map, category, V_Acme, V_X1)
             a == apply_overrides(c.store, c.ret, m)
         IN  /\ store' = a.store
             /\ merged' = m
             /\ outs' = Append(outs, [ret |-> a.ret, sections |-> c.ret,
                                      before |-> c.store,
                                      value |-> Value(a.store, a.ret),
                                      category |-> category, edited |-> FALSE])
             /\ call' = Called("apply_overrides", PyNone, category, V_Acme, V_X1,
                               TRUE, FALSE)
    /\ pc' = "composed"
    /\ answers' = EmptyDict
    /\ trace' = <<>>
    /\ UNCHANGED <<ov_map, qdef, ver>>

\* main.py: the admin-defined Delivery fields are added to the composed sections
InjectAdmin ==
    /\ pc = "composed"
    /\ LET adm == normalize_admin_fields(to_cat_key(call.category.s), S_Delivery,
                                         qdef.raw)
           st2 == inject_admin(store, outs[Len(outs)].ret, adm)
       IN  /\ store' = st2
           /\ outs' = [outs EXCEPT ![Len(outs)].edited = (st2 # store)]
    /\ pc' = "called"
    /\ UNCHANGED <<answers, call, ov_map, merged, qdef, trace, ver>>

NextCompose == LoadQuestions \/ Compose \/ InjectAdmin \/ Return

SpecCompose == InitCompose /\ [][NextCompose]_vars

(***************************************************************************)
(* Properties of the section composer.                                     *)
(***************************************************************************)
\* the objects the object at r is made of
RECURSIVE Reach(_, _)
Reach(st, r) ==
    {r} \cup
    IF st[r].kind = "list"
    THEN UNION {Reach(st, st[r].items[i]) : i \in 1..Len(st[r].items)}
    ELSE UNION {Reach(st, st[r].d[k].n) : k \in {x \in DOMAIN st[r].d : st[r].d[x].t = "ref"}}

\* apply_overrides has returned in this script run
Composed == pc \in {"composed", "called"} /\ call.op = "apply_overrides"
\* what the last call of apply_overrides returned
LastOut == outs[Len(outs)]

\* C14: apply_overrides leaves every object it was given as it was (the
\* sections, their fields, the merged override object and the field
\* payloads of its directives) and returns objects of its own; two calls
\* on the same inputs return structurally identical section lists; an edit
\* of one returned list changes neither the inputs nor another returned list.
Thm_C14_InputsUnchangedOutputsApart ==
    \A i \in 1..Len(outs) :
        /\ \A r \in 1..Len(outs[i].before) : store[r] = outs[i].before[r]
        /\ Reach(store, outs[i].ret) \cap 1..Len(outs[i].before) = {}
        /\ ~outs[i].edited => Value(store, outs[i].ret) = outs[i].value
        /\ \A j \in 1..Len(outs) :
             /\ outs[i].category = outs[j].category => outs[i].value = outs[j].value
             /\ i # j => Reach(store, outs[i].ret) \cap Reach(store, outs[j].ret) = {}

Wit_C14_SecondRunEditedAfterInsertAndRequire ==
    /\ pc = "called" /\ call.op = "apply_overrides"
    /\ Len(outs) = 2
    /\ outs[1].category = V_toys /\ outs[2].category = V_toys
    /\ outs[1].edited /\ outs[2].edited
    /\ merged.hide_fields = {S_color}
    /\ merged.required = {S_brand, S_batteries}
    /\ Len(merged.insert_after) = 2
    /\ Value(store, outs[2].ret) # outs[2].value
    /\ Value(store, outs[1].ret) # outs[2].value

\* the sections apply_overrides was given and those it returned, as values
InSections == Value(LastOut.before, LastOut.sections).items
OutSections == LastOut.value.items
\* the fields of a section value, and their names
FieldsOf(sec) == IF HasKey(sec, S_fields) THEN sec.d[S_fields].items ELSE <<>>
NamesIn(sec) == [i \in 1..Len(FieldsOf(sec)) |-> DictGet(FieldsOf(sec)[i].d, S_name)]
\* a name of the set S
Named(v, S) == v.t = "str" /\ v.s \in S
\* a is b with some entries left out
RECURSIVE IsSubsequence(_, _)
IsSubsequence(a, b) ==
    IF a = <<>> THEN TRUE
    ELSE IF b = <<>> THEN FALSE
    ELSE IF Head(a) = Head(b) THEN IsSubsequence(Tail(a), Tail(b))
    ELSE IsSubsequence(a, Tail(b))
\* how many entries of a sequence are equal to x
Count(seq, x) == Cardinality({i \in 1..Len(seq) : seq[i] = x})
\* the directives of the merged result that apply_overrides does not skip,
\* and the name of the field each carries
Applied ==
    SelectSeq(merged.insert_after,
              LAMBDA e : Truthy(DictGet(e.d, S_after)) /\ DictGet(e.d, S_field).t = "ref")
PayloadName(e) == DictGet(LastOut.before[e.d[S_field].n].d, S_name)
\* how many fields of the returned sections have the name n
OutCount(n) ==
    LET per == [k \in 1..Len(OutSections) |->
                  Count(NamesIn(OutSections[k]), PyStr(n))]
        RECURSIVE Sum(_)
        Sum(k) == IF k = 0 THEN 0 ELSE per[k] + Sum(k - 1)
    IN  Sum(Len(OutSections))
\* the fields of a section that are not hidden, in their order
KeptNames(sec) ==
    SelectSeq(NamesIn(sec), LAMBDA v : ~Named(v, merged.hide_fields))

\* C15 as stated: no section apply_overrides returns has a field whose name
\* is in the merged hide_fields, and the fields that are not hidden keep
\* their relative order.
Orig_C15_NoHiddenNameInOutput ==
    (pc = "composed") =>
        /\ \A k \in 1..Len(OutSections) : \A i \in 1..Len(NamesIn(OutSections[k])) :
             ~Named(NamesIn(OutSections[k])[i], merged.hide_fields)
        /\ \A k \in 1..Len(InSections) :
             IsSubsequence(KeptNames(InSections[k]), NamesIn(OutSections[k]))

\* C15, amended: apply_overrides removes every field of the given sections
\* whose name is in the merged hide_fields, before it inserts: a returned
\* field has a hidden name only when a directive inserted it, one field per
\* such directive; the given fields that are not hidden keep their relative
\* order.
Thm_C15_GivenFieldsHiddenInsertedOnesKept ==
    (pc = "composed") =>
        /\ Len(OutSections) = Len(InSections)
        /\ \A n \in merged.hide_fields :
             OutCount(n) = IF OutSections = <<>> THEN 0
                           ELSE Count([i \in 1..Len(Applied) |-> PayloadName(Applied[i])], PyStr(n))
        /\ \A k \in 1..Len(InSections) :
             IsSubsequence(KeptNames(InSections[k]), NamesIn(OutSections[k]))

Wit_C15_HiddenTargetInsertedNamesake ==
    /\ pc = "composed"
    /\ call.category = V_toys
    /\ merged.hide_fields = {S_brand, S_batteries}
    /\ \E k \in 1..Len(InSections) :
         \E i \in 1..Len(NamesIn(InSections[k])) : NamesIn(InSections[k])[i] = PyStr(S_brand)
    /\ OutCount(S_brand) = 0
    /\ OutCount(S_batteries) = 1

\* a field value without its required flag
Unflagged(f) == PyDict([k \in DOMAIN f.d \ {S_required} |-> f.d[k]])
\* the fields of each section, without their required flags
Plain(secs) ==
    [k \in 1..Len(secs) |->
        [i \in 1..Len(FieldsOf(secs[k])) |-> Unflagged(FieldsOf(secs[k])[i])]]
\* the given sections once the hidden fields are removed
AfterHide ==
    [k \in 1..Len(InSections) |->
        SelectSeq(Plain(InSections)[k],
                  LAMBDA f : ~Named(DictGet(f.d, S_name), merged.hide_fields))]
\* the value of the field a directive carries
Payload(e) == Unflagged(PyDict(LastOut.before[e.d[S_field].n].d))
\* the positions of the fields named as the value nm in a list of fields
Places(flds, nm) == {i \in 1..Len(flds) : DictGet(flds[i].d, S_name) = nm}
\* the sections that have a field named nm
Holders(secs, nm) == {k \in 1..Len(secs) : Places(secs[k], nm) # {}}
Least(S) == CHOOSE x \in S : \A y \in S : x <= y
\* fld put right after the first field named nm of the first section that
\* has one
AfterFirst(secs, nm, fld) ==
    LET k == Least(Holders(secs, nm))
        i == Least(Places(secs[k], nm))
    IN  [secs EXCEPT ![k] = SubSeq(secs[k], 1, i) \o <<fld>>
                            \o SubSeq(secs[k], i + 1, Len(secs[k]))]
\* fld put at the end of the last section
AtEndOfLast(secs, fld) == [secs EXCEPT ![Len(secs)] = Append(secs[Len(secs)], fld)]
\* the sections after the first j applied directives, a directive whose
\* target is missing being left out ("skip") or put at the end of the last
\* section ("append")
RECURSIVE Placed(_, _)
Placed(j, missing) ==
    IF j = 0 THEN AfterHide
    ELSE LET prev == Placed(j - 1, missing)
             e    == Applied[j]
         IN  IF Holders(prev, e.d[S_after]) # {}
             THEN AfterFirst(prev, e.d[S_after], Payload(e))
             ELSE IF missing = "append" THEN AtEndOfLast(prev, Payload(e))
             ELSE prev
\* the j-th applied directive finds its target when its turn comes
TargetPresent(j) ==
    Holders(Placed(j - 1, "append"), Applied[j].d[S_after]) # {}
AllTargetsPresent == \A j \in 1..Len(Applied) : TargetPresent(j)

\* C16: a directive whose target names a field that is present when the
\* directive is applied puts its new field exactly once, right after the
\* first field of that name in the order of the sections; no other section
\* gets a copy.
Thm_C16_InsertedOnceAfterFirstMatch ==
    (pc = "composed" /\ AllTargetsPresent) =>
        Plain(OutSections) = Placed(Len(Applied), "skip")

Wit_C16_TargetInTwoSectionsThenChained ==
    /\ pc = "composed" /\ AllTargetsPresent
    /\ Len(Applied) = 2
    /\ Holders(AfterHide, PyStr(S_brand)) = {1, 2}
    /\ Applied[1].d[S_after] = PyStr(S_brand)
    /\ Applied[2].d[S_after] = PyStr(S_batteries)
    /\ Holders(AfterHide, PyStr(S_batteries)) = {}

\* C17 as stated: a well-formed directive whose target matches no field
\* puts its new field at the end of the last section; the field is in the
\* output whatever the section list is.
Orig_C17_UnmatchedNeverDropped ==
    (pc = "composed") =>
        /\ OutSections # <<>> =>
             Plain(OutSections) =
                Placed(Len(Applied), "append")
        /\ \A j \in 1..Len(Applied) :
             \E k \in 1..Len(OutSections) :
                \E i \in 1..Len(FieldsOf(OutSections[k])) :
                    Plain(OutSections)[k][i] = Payload(Applied[j])

\* C17, amended: a well-formed directive whose target matches no field puts
\* its new field at the end of the last section when there is a section;
\* when the section list is empty the output is empty and the field is
\* dropped.
Thm_C17_UnmatchedAppendedUnlessNoSection ==
    (pc = "composed") =>
        Plain(OutSections) =
            IF InSections = <<>> THEN <<>>
            ELSE Placed(Len(Applied), "append")

Wit_C17_FallbackMakesFieldList ==
    /\ pc = "composed"
    /\ merged.hide_fields = {}
    /\ Len(InSections) = 3
    /\ ~HasKey(InSections[3], S_fields)
    /\ Len(Applied) = 1
    /\ ~TargetPresent(1)
    /\ NamesIn(OutSections[3]) = <<PayloadName(Applied[1])>>

\* the sequences of a sequence, one after the other
RECURSIVE Flat(_)
Flat(seqs) == IF seqs = <<>> THEN <<>> ELSE Head(seqs) \o Flat(Tail(seqs))
\* the fields apply_overrides returned
OutFields == Flat([k \in 1..Len(OutSections) |-> FieldsOf(OutSections[k])])
\* the fields the returned ones are copies of: the given fields that are
\* not hidden and, when there is a section, the payloads of the applied
\* directives
SourceFields ==
    Flat([k \in 1..Len(InSections) |->
            SelectSeq(FieldsOf(InSections[k]),
                      LAMBDA f : ~Named(DictGet(f.d, S_name), merged.hide_fields))])
    \o (IF InSections = <<>> THEN <<>>
        ELSE [j \in 1..Len(Applied) |-> PyDict(LastOut.before[Applied[j].d[S_field].n].d)])
\* the required flag of a field: true, false or absent
S_absent == <<"a", "b", "s", "e", "n", "t">>
FlagOf(f) == IF S_required \in DOMAIN f.d THEN f.d[S_required] ELSE PyStr(S_absent)

\* C18: every returned field whose name is in the merged required set has
\* required = true; every other returned field has the required value of
\* the field it is a copy of (true, false or absent); no flag is turned off.
Thm_C18_RequiredOnlyTurnedOn ==
    (pc = "composed") =>
        /\ \A i \in 1..Len(OutFields) :
             Named(DictGet(OutFields[i].d, S_name), merged.required)
                => FlagOf(OutFields[i]) = PyBool(TRUE)
        /\ \A f \in Range(OutFields) \cup Range(SourceFields) :
             ~Named(DictGet(f.d, S_name), merged.required)
                => Count(OutFields, f) = Count(SourceFields, f)
        /\ Len(OutFields) = Len(SourceFields)

Wit_C18_FalseTurnedOnOthersKept ==
    /\ pc = "composed"
    /\ merged.required = {S_color}
    /\ Count(SourceFields, F_color) = 2
    /\ Count(OutFields, F_color) = 0
    /\ Count(OutFields, F_brand_required) = 1
    /\ Count(OutFields, F_brand) = 1

\* C19: for every schema load_questions accepts and every selection, each
\* section of the composed output has pairwise distinct field names and no
\* field without a name.
Claim_C19_ComposedNamesDistinct ==
    (pc = "composed") =>
        \A k \in 1..Len(OutSections) :
            /\ \A i \in 1..Len(NamesIn(OutSections[k])) : Truthy(NamesIn(OutSections[k])[i])
            /\ \A i, j \in 1..Len(NamesIn(OutSections[k])) :
                 NamesIn(OutSections[k])[i] = NamesIn(OutSections[k])[j] => i = j

\* a directive puts a second field named brand next to the first
Wit_C19_InsertedNamesake ==
    /\ pc = "composed"
    /\ Len(Applied) = 1
    /\ Applied[1].d[S_after] = PyStr(S_brand)
    /\ PayloadName(Applied[1]) = PyStr(S_brand)
    /\ \E k \in 1..Len(OutSections) :
         Count(NamesIn(OutSections[k]), PyStr(S_brand)) = 2

(***************************************************************************)
(* A session that also renders the composed sections: the schema of the    *)
(* end-to-end scenario and three neighbours of it.                         *)
(***************************************************************************)
Rule_insert_batteries ==
    PyDict(S_insert_after :> PyList(<<Directive(S_brand, NewField(S_batteries))>>))
Rule_hide_color == PyDict(S_hide_fields :> Names(<<S_color>>))
Rule_scenario == PyDict(Rule_hide_color.d @@ Rule_insert_batteries.d)

SchemaWith(o) ==
    PyDict((S_base_sections :>
              PyList(<< Sec(S_general, <<F_brand, F_color, F_warning>>) >>))
           @@ (S_category_packs :> PyDict(EmptyDict))
           @@ (S_overrides :> PyDict(o)))
ScenarioSchema == SchemaWith(Key_category_toys :> Rule_scenario)
RenderSchemas ==
    { ScenarioSchema,
      SchemaWith(Key_category_toys :> Rule_insert_batteries),
      SchemaWith(Key_category_toys :> Rule_hide_color),
      SchemaWith(EmptyDict) }

\* what the user may have typed into a text widget
RenderValues == {PyStr(S_red), PyStr(<<>>)}

InitRender ==
    /\ answers = EmptyDict
    /\ pc = "start"
    /\ call = NoCall
    /\ ov_map = EmptyDict
    /\ merged = NoMerge
    /\ store = <<>>
    /\ qdef \in {[raw |-> q, base |-> 0, packs |-> <<>>] : q \in RenderSchemas}
    /\ outs = <<>>
    /\ trace = <<>>
    /\ ver = NoVer

\* render_section: the body of "for field in fields" for one named field of
\* the composed sections; a visible text field stores the widget's value
RenderField ==
    /\ pc = "called"
    /\ call.op \in {"apply_overrides", "is_visible"}
    /\ \E k \in 1..Len(store[LastOut.ret].items) :
         \E i \in 1..Len(fields_of(store, store[LastOut.ret].items[k])) :
            LET f == PyDict(store[fields_of(store, store[LastOut.ret].items[k])[i]].d)
                r == is_visible(f, 1, <<answers>>, call.category, call.make, call.model)
            IN  /\ Truthy(DictGet(f.d, S_name))
                /\ call' = Called("is_visible", f, call.category, call.make,
                                  call.model, r.ret, FALSE)
                /\ IF r.ret
                   THEN \E v \in RenderValues :
                           answers' = DictSet(r.heap[1], f.d[S_name].s, v)
                   ELSE answers' = r.heap[1]
    /\ UNCHANGED <<pc, ov_map, merged, store, qdef, outs, trace, ver>>

NextRender == LoadQuestions \/ Compose \/ InjectAdmin \/ RenderField \/ Return

SpecRender == InitRender /\ [][NextRender]_vars

\* the last composition is that of the scenario: its schema, category toys
InScenario ==
    /\ pc \in {"composed", "called"}
    /\ qdef.raw = ScenarioSchema
    /\ LastOut.category = V_toys

\* C20: in the scenario (a base section with brand, color and a field
\* warning gated by color eq red; category:toys inserts batteries after
\* brand and hides color) the composed section for toys has brand directly
\* followed by batteries and no color, no context of the run has the key
\* color, and is_visible of warning is false.
Thm_C20_ScenarioBrandBatteriesNoColor ==
    InScenario =>
        /\ Len(OutSections) = 1
        /\ NamesIn(OutSections[1]) = <<PyStr(S_brand), PyStr(S_batteries), PyStr(S_warning)>>
        /\ S_color \notin DOMAIN answers
        /\ (call.op = "is_visible" /\ DictGet(call.arg.d, S_name) = PyStr(S_warning))
              => (S_color \notin DOMAIN call.before /\ ~call.ret)

Wit_C20_WarningHiddenAfterBrandAnswered ==
    /\ InScenario
    /\ call.op = "is_visible"
    /\ call.arg = F_warning
    /\ ~call.ret
    /\ DOMAIN call.before = {S_brand, S_batteries}
    /\ call.before[S_brand] = PyStr(S_red)

(***************************************************************************)
(* Sessions on schemas that put the loader's checks to the test: a gated   *)
(* or typed field in a base section or in a category pack, and directives  *)
(* whose target or payload only the overrides know.                        *)
(***************************************************************************)
S_bogus == <<"b", "o", "g", "u", "s">>
S_file == <<"f", "i", "l", "e">>

Typed(n, t) == PyDict((S_name :> PyStr(n)) @@ (S_type :> PyStr(t)))
Gated(c) == PyDict((S_name :> PyStr(S_warning)) @@ (S_visible_if :> c))

OnBrand == Clause3(S_brand, PyStr(S_eq), PyStr(S_red))
OnColor == Clause3(S_color, PyStr(S_eq), PyStr(S_red))

\* conditions on the field brand, which the schemas define, and on color,
\* which only an insert_after payload may define
LoadConds ==
    { OnBrand, OnColor,
      Clause3(S_v_make, PyStr(S_eq), V_Acme),
      GroupOf("list", <<OnBrand, OnColor>>),
      GroupOf("all", <<OnBrand>>),
      GroupOf("all", <<OnColor>>),
      GroupOf("any", <<OnBrand, GroupOf("all", <<OnColor>>)>>),
      PyDict(S_and :> PyList(<<OnColor>>)) }

LoadFields ==
    {Gated(c) : c \in LoadConds}
    \cup {Typed(S_warning, S_bogus), Typed(S_warning, S_file)}

LoadInserts ==
    { <<>>,
      << Directive(S_brand, NewField(S_batteries)) >>,
      << Directive(S_brand, Typed(S_batteries, S_bogus)) >>,
      << Directive(S_color, NewField(S_color)) >>,
      << Directive(S_batteries, NewField(S_y)) >>,
      << Directive(S_brand, NewField(S_batteries)),
         Directive(S_batteries, NewField(S_y)) >> }

\* the wildcard scope: no rule, or one that inserts y after brand
LoadStar ==
    { EmptyDict,
      S_star :> PyDict(S_insert_after :> PyList(<<Directive(S_brand, NewField(S_y))>>)) }

LoadSchemas ==
    { PyDict((S_base_sections :> PyList(<< Sec(S_general, <<F_brand>> \o b) >>))
             @@ (S_category_packs :>
                   PyDict(LIT_toys :> PyList(<< Sec(S_toys_pack, <<NewField(S_x)>> \o p) >>)))
             @@ (S_overrides :>
                   PyDict(w @@ (Key_category_toys :>
                                  PyDict(S_insert_after :> PyList(i)))))) :
        b \in {<<>>} \cup {<<f>> : f \in LoadFields},
        p \in {<<>>} \cup {<<f>> : f \in LoadFields},
        w \in LoadStar,
        i \in LoadInserts }

InitLoad ==
    /\ answers = EmptyDict
    /\ pc = "start"
    /\ call = NoCall
    /\ ov_map = EmptyDict
    /\ merged = NoMerge
    /\ store = <<>>
    /\ qdef \in {[raw |-> q, base |-> 0, packs |-> <<>>] : q \in LoadSchemas}
    /\ outs = <<>>
    /\ trace = <<>>
    /\ ver = NoVer

SpecLoad == InitLoad /\ [][NextCompose]_vars

(***************************************************************************)
(* Properties of the schema validation.                                    *)
(***************************************************************************)
Loaded == pc \notin {"start", "rejected"}
Decided == pc # "start"

\* the sections of the schema: those of base_sections and of every pack
SchemaSections ==
    Range(qdef.raw.d[S_base_sections].items)
    \cup UNION {Range(items_or_empty(qdef.raw.d[S_category_packs].d[c])) :
                  c \in DOMAIN qdef.raw.d[S_category_packs].d}
SchemaFields == UNION {Range(section_fields(sec)) : sec \in SchemaSections}
SectionNames == {DictGet(f.d, S_name) : f \in SchemaFields}

\* the insert_after directives of all overrides, and their field payloads
SchemaDirectives ==
    UNION {Range(items_or_empty(DictGet(qdef.raw.d[S_overrides].d[k].d, S_insert_after))) :
             k \in DOMAIN qdef.raw.d[S_overrides].d}
PayloadFields == {DictGet(e.d, S_field) : e \in SchemaDirectives}

\* the clauses evaluate can reach in a condition: those of the all groups,
\* any groups and lists, at any depth
RECURSIVE ReachedClauses(_)
ReachedClauses(c) ==
    IF ~Truthy(c) THEN {}
    ELSE IF IsGroupShape(c)
    THEN UNION {ReachedClauses(GroupSubs(c)[i]) : i \in 1..Len(GroupSubs(c))}
    ELSE IF IsClause(c) THEN {c}
    ELSE {}

\* the field names the clauses of the schema's fields refer to
References ==
    {DictGet(cl.d, S_field) :
        cl \in UNION {ReachedClauses(DictGet(f.d, S_visible_if)) : f \in SchemaFields}}

\* every name the schema defines: fields of sections and insert_after payloads
DefinedNames == SectionNames \cup {DictGet(f.d, S_name) : f \in PayloadFields}

\* C21: load_questions fails for every schema in which a visible_if clause,
\* at any depth inside all/any groups or lists, of a field of a base section
\* or category pack refers to a name that the schema does not define and
\* that is no virtual field.
Claim_C21_UnknownReferenceRejected ==
    (Decided /\ \E ref \in References : ref \notin DefinedNames \cup virtuals)
        => pc = "rejected"

Wit_C21_GhostInsideAllGroupAccepted ==
    /\ pc = "composed"
    /\ Gated(GroupOf("all", <<OnColor>>)) \in SchemaFields
    /\ PyStr(S_color) \notin DefinedNames
    /\ \E k \in 1..Len(OutSections) :
          Gated(GroupOf("all", <<OnColor>>)) \in Range(FieldsOf(OutSections[k]))

\* C22: load_questions fails for every schema in which an insert_after
\* directive of an override names an after target that is no field of a base
\* section or category pack.
Claim_C22_UnknownTargetRejected ==
    (Decided /\ \E e \in SchemaDirectives : DictGet(e.d, S_after) \notin SectionNames)
        => pc = "rejected"

Wit_C22_TargetKnownOnlyFromItsOwnPayload ==
    /\ pc = "composed"
    /\ call.category = V_toys
    /\ merged.insert_after # <<>>
    /\ SchemaDirectives = {Directive(S_color, NewField(S_color))}
    /\ PyStr(S_color) \notin SectionNames
    /\ NamesIn(OutSections[Len(OutSections)])
          = <<PyStr(S_x), PyStr(S_color)>>

\* the type of a field, text when it names none
TypeOf(f) == DictGetOr(f.d, S_type, PyStr(S_text))
Allowed(f) == TypeOf(f) \in {PyStr(t) : t \in ALLOWED_FIELD_TYPES}

\* C23: load_questions fails for every schema with a field whose type is
\* outside the allowed set, be the field in a base section, in a category
\* pack or the payload of an insert_after directive; so every field of a
\* composed output has an allowed type.
Claim_C23_UnknownTypeRejected ==
    /\ (Decided /\ \E f \in SchemaFields \cup PayloadFields : ~Allowed(f))
          => pc = "rejected"
    /\ pc = "composed" =>
          \A k \in 1..Len(OutSections) :
             \A f \in Range(FieldsOf(OutSections[k])) : Allowed(f)

Wit_C23_InsertedFieldOfUnknownType ==
    /\ pc = "composed"
    /\ \A f \in SchemaFields : Allowed(f)
    /\ \E k \in 1..Len(OutSections) :
          /\ Len(FieldsOf(OutSections[k])) >= 2
          /\ FieldsOf(OutSections[k])[1] = F_brand
          /\ FieldsOf(OutSections[k])[2] = Typed(S_batteries, S_bogus)

(***************************************************************************)
(* The legacy condition {field, equals} in the two consumers.              *)
(***************************************************************************)
LegacyField == FieldWith(ClauseLegacy(S_f, V_A))

\* C24: a field whose visible_if is the legacy form {field: f, equals: v} is
\* visible, in the renderer and in the exporter, exactly when the current
\* answer of f equals v.
Claim_C24_LegacyFormComparesWithEquals ==
    (call.op \in {"is_visible", "export"} /\ call.arg = LegacyField)
        => (call.ret <=> PyEq(DictGet(call.before, S_f), V_A))

Wit_C24_HiddenAlthoughAnswerEquals ==
    /\ call.op = "is_visible"
    /\ call.arg = LegacyField
    /\ DictGet(call.before, S_f) = V_A
    /\ ~call.ret

(***************************************************************************)
(* main.py: the render pass of a script run.  The sections are rendered in *)
(* a fixed order of their keys, each field on the answers written so far;  *)
(* the report is exported from the answers the pass leaves.                *)
(***************************************************************************)
S_site_info == <<"s", "i", "t", "e", "_", "i", "n", "f", "o">>
S_contact_info == <<"c", "o", "n", "t", "a", "c", "t", "_", "i", "n", "f", "o">>
S_installation_location ==
    <<"i", "n", "s", "t", "a", "l", "l", "a", "t", "i", "o", "n", "_",
      "l", "o", "c", "a", "t", "i", "o", "n">>
S_hours == <<"h", "o", "u", "r", "s">>
S_store_hours == <<"s", "t", "o", "r", "e", "_", "h", "o", "u", "r", "s">>
S_storehours == <<"s", "t", "o", "r", "e", "h", "o", "u", "r", "s">>

\* _sec.get("key") == k
has_key(st, r, k) == PyEq(DictGet(st[r].d, S_key), PyStr(k))

\* _skip_store_hours(f) for a field without label: "(f.get("name") or
\* "").strip().lower() not in {"store_hours", "hours", "storehours"}"
skip_store_hours(st, f) ==
    LET nm == name_of(st, f)
    IN  Lower(Strip(IF Truthy(nm) THEN nm.s ELSE <<>>))
           \notin {S_store_hours, S_hours, S_storehours}

\* the fields of a sequence of sections, section after section
RECURSIVE fields_in_turn(_, _, _)
fields_in_turn(st, secs, i) ==
    IF i > Len(secs) THEN <<>>
    ELSE fields_of(st, secs[i]) \o fields_in_turn(st, secs, i + 1)

\* the render_section calls of main.py, as the fields they go through: the
\* first site_info section without its store hours, the first contact_info
\* section, the delivery sections, every other section, and the first
\* installation_location section
render_order(st, secs) ==
    LET first(k) == first_section({i \in 1..Len(secs) : has_key(st, secs[i], k)})
        site     == first(S_site_info)
        contact  == first(S_contact_info)
        inst     == first(S_installation_location)
        delivery == SelectSeq(secs, LAMBDA r : \/ has_key(st, r, S_delivery_base)
                                               \/ has_key(st, r, S_smart_safe_additions))
        other    == SelectSeq(secs, LAMBDA r :
                       \A k \in {S_contact_info, S_installation_location, S_site_info,
                                 S_delivery_base, S_smart_safe_additions} :
                          ~has_key(st, r, k))
    IN  (IF site = 0 THEN <<>>
         ELSE SelectSeq(fields_of(st, secs[site]), LAMBDA f : skip_store_hours(st, f)))
        \o (IF contact = 0 THEN <<>> ELSE fields_of(st, secs[contact]))
        \o fields_in_turn(st, delivery, 1)
        \o fields_in_turn(st, other, 1)
        \o (IF inst = 0 THEN <<>> ELSE fields_of(st, secs[inst]))

S_hours_field == NewField(S_hours)

\* schemas with a field warning shown when color is red, placed before or
\* after color in the list and in the render order
PassBases ==
    { << Sec(S_general, <<F_brand, F_color, Gated(OnColor)>>) >>,
      << Sec(S_general, <<Gated(OnColor), F_color>>) >>,
      << Sec(S_general, <<Gated(OnColor)>>),
         Sec(S_site_info, <<S_hours_field, F_color>>) >>,
      << Sec(S_installation_location, <<F_color>>),
         Sec(S_general, <<Gated(OnColor)>>) >>,
      << Sec(S_delivery_base, <<F_color>>),
         Sec(S_contact_info, <<Gated(OnColor)>>),
         Sec(S_delivery_base, <<F_brand>>) >> }

PassSchemas ==
    { PyDict((S_base_sections :> PyList(b))
             @@ (S_category_packs :> PyDict(EmptyDict))
             @@ (S_overrides :> PyDict(EmptyDict))) : b \in PassBases }

InitPass ==
    /\ answers = EmptyDict
    /\ pc = "start"
    /\ call = NoCall
    /\ ov_map = EmptyDict
    /\ merged = NoMerge
    /\ store = <<>>
    /\ qdef \in {[raw |-> q, base |-> 0, packs |-> <<>>] : q \in PassSchemas}
    /\ outs = <<>>
    /\ trace = <<>>
    /\ ver = NoVer

\* the fields the pass of the last composition goes through
PassFields == render_order(store, store[LastOut.ret].items)

\* render_section: the body of "for field in fields" for the next field of
\* the pass
RenderNext ==
    /\ pc = "called"
    /\ call.op \in {"apply_overrides", "is_visible"}
    /\ Len(trace) < Len(PassFields)
    /\ LET f == PyDict(store[PassFields[Len(trace) + 1]].d)
           r == is_visible(f, 1, <<answers>>, call.category, call.make, call.model)
       IN  IF ~Truthy(DictGet(f.d, S_name))
           THEN /\ trace' = Append(trace, [field |-> f, named |-> FALSE, shown |-> FALSE])
                /\ UNCHANGED <<answers, call>>
           ELSE /\ trace' = Append(trace, [field |-> f, named |-> TRUE, shown |-> r.ret])
                /\ call' = Called("is_visible", f, call.category, call.make,
                                  call.model, r.ret, FALSE)
                /\ IF r.ret
                   THEN \E v \in RenderValues :
                           answers' = DictSet(r.heap[1], f.d[S_name].s, v)
                   ELSE answers' = r.heap[1]
    /\ UNCHANGED <<pc, ov_map, merged, store, qdef, outs, ver>>

\* write_section_to_pdf_QA after the pass: the exporter's decision for a
\* field, on the answers the pass has left
ExportPass ==
    /\ pc = "called"
    /\ call.op \in {"is_visible", "export"}
    /\ Len(trace) = Len(PassFields)
    /\ \E i \in 1..Len(trace) :
         LET r == export_visible(trace[i].field, 1, <<answers>>, call.category,
                                 call.make, call.model)
         IN  /\ answers' = r.heap[1]
             /\ call' = Called("export", trace[i].field, call.category, call.make,
                               call.model, r.ret, r.raised)
    /\ UNCHANGED <<pc, ov_map, merged, store, qdef, outs, trace, ver>>

NextPass ==
    LoadQuestions \/ Compose \/ InjectAdmin \/ RenderNext \/ ExportPass \/ Return

SpecPass == InitPass /\ [][NextPass]_vars

KnownOps == {PyStr(o) : o \in OpNames}

\* C26: a clause whose op is none of eq, neq, in, nin, gt, gte, lt, lte,
\* contains evaluates to false whatever the context and the value, without
\* raising; a truthy condition of an unrecognised shape evaluates to true.
Thm_C26_UnknownOperatorIsFalse ==
    /\ (EvaluatedClause /\ HasKey(call.arg, S_op) /\ call.arg.d[S_op] \notin KnownOps)
          => (~call.ret /\ ~call.raised)
    /\ (call.op = "evaluate" /\ IsUnknownShape(call.arg)) => call.ret

Wit_C26_UnknownOperatorOnEqualValues ==
    /\ EvaluatedClause
    /\ call.arg = Clause3(S_f, PyStr(LIT_foo), V_A)
    /\ DictGet(call.before, S_f) = V_A
    /\ ~call.ret

(***************************************************************************)
(* Several directives on one target.                                       *)
(***************************************************************************)
Reverse(seq) == [i \in 1..Len(seq) |-> seq[Len(seq) + 1 - i]]

\* the applied directives whose target is the name T, in directive order,
\* and the fields they carry
Targeting(T) == SelectSeq(Applied, LAMBDA e : e.d[S_after] = T)
TargetPayloads(T) == [i \in 1..Len(Targeting(T)) |-> Payload(Targeting(T)[i])]

\* no other directive carries a field named T or aims at a field that a
\* directive on T carries
Unmixed(T) ==
    \A j \in 1..Len(Applied) :
        Applied[j].d[S_after] # T =>
            /\ PayloadName(Applied[j]) # T
            /\ \A i \in 1..Len(Targeting(T)) :
                  PayloadName(Targeting(T)[i]) # Applied[j].d[S_after]

\* the fields of the output that follow the first field named T, as many
\* as there are directives on T
RowAfter(T) ==
    LET k == Least(Holders(Plain(OutSections), T))
        i == Least(Places(Plain(OutSections)[k], T))
    IN  SubSeq(Plain(OutSections)[k], i + 1, i + Len(Targeting(T)))

SharedTargets ==
    {T \in {Applied[j].d[S_after] : j \in 1..Len(Applied)} :
        Holders(AfterHide, T) # {} /\ Unmixed(T)}

\* C27 as stated: the new fields of the directives on one present target
\* follow the target in directive order, the field of the earlier directive
\* next to the target.
Orig_C27_SameTargetInDirectiveOrder ==
    pc = "composed" => \A T \in SharedTargets : RowAfter(T) = TargetPayloads(T)

\* C27, amended: the new fields of the directives on one present target
\* follow the target in the reverse of the directive order: each directive
\* inserts right after the target, so the field of the last (highest
\* precedence) directive is next to the target and that of the first one is
\* farthest.
Thm_C27_SameTargetInReverseOrder ==
    pc = "composed" => \A T \in SharedTargets : RowAfter(T) = Reverse(TargetPayloads(T))

Wit_C27_WildcardFieldBehindCategoryField ==
    /\ pc = "composed"
    /\ PyStr(S_brand) \in SharedTargets
    /\ TargetPayloads(PyStr(S_brand)) = <<NewField(S_y), NewField(S_batteries)>>
    /\ NamesIn(OutSections[1])
          = <<PyStr(S_brand), PyStr(S_batteries), PyStr(S_y), PyStr(S_warning)>>

(***************************************************************************)
(* The model scope of the override resolver.                               *)
(***************************************************************************)
\* the override map without the rule written for make Acme, model X1
WithoutModelRule == [k \in DOMAIN ov_map \ {Key_model_Acme_X1} |-> ov_map[k]]

\* the rule under model:Acme|X1 has a part in the result of the last call
ModelRuleContributes ==
    /\ pc = "called"
    /\ call.op = "merge_overrides"
    /\ merged # merge_overrides(WithoutModelRule, call.category, call.make, call.model)

\* C28: the rule written for make M and model N (key model:M|N) contributes
\* to merge_overrides(schema, category, make, model) only when make = M and
\* model = N; two different (make, model) pairs never give the same model
\* scope key.
Claim_C28_ModelRuleOnlyForItsPair ==
    ModelRuleContributes => (call.make = V_Acme /\ call.model = V_X1)

Wit_C28_PaddedModelGetsTheRule ==
    /\ ModelRuleContributes
    /\ call.make = V_Acme
    /\ call.model = PyStr(LIT_X1_padded)
    /\ normalize_scope_name(scopes(call.category, call.make, call.model)[4])
          = Key_model_Acme_X1
    /\ scopes(call.category, PyStr(<<"A", "|", "B">>), PyStr(<<"C">>))[4]
          = scopes(call.category, PyStr(<<"A">>), PyStr(<<"B", "|", "C">>))[4]

(***************************************************************************)
(* form_renderer.py: seed_defaults.  The session store of Streamlit is the *)
(* dict object 1 of the store; the state dict passed to the function is    *)
(* that object (as in main.py) or another dict object.                     *)
(***************************************************************************)
SessionState == 1

\* the body of "for k, v in defaults.items()" in seed_defaults
seed_key(st, state, k, v, overwrite_empty_only) ==
    LET both == set_item(set_item(st, SessionState, k, v), state, k, v)
        curr == IF k \in DOMAIN st[SessionState].d THEN st[SessionState].d[k]
                ELSE DictGet(st[state].d, k)
    IN  IF ~overwrite_empty_only THEN both
        ELSE IF curr.t = "none" \/ PyEq(curr, PyStr(<<>>)) THEN both
        ELSE st

RECURSIVE seed_loop(_, _, _, _, _, _)
seed_loop(st, state, defaults, keys, i, overwrite_empty_only) ==
    IF i > Len(keys) THEN st
    ELSE seed_loop(seed_key(st, state, keys[i], defaults[keys[i]], overwrite_empty_only),
                   state, defaults, keys, i + 1, overwrite_empty_only)

\* seed_defaults(state, defaults, overwrite_empty_only)
seed_defaults(st, state, defaults, overwrite_empty_only) ==
    IF defaults.t # "dict" THEN st
    ELSE seed_loop(st, state, defaults.d, SortedKeys(DOMAIN defaults.d), 1,
                   overwrite_empty_only)

\* the values a key may hold before seeding, and the dicts made of them
SeedValues == {PyNone, V_empty, V_A, PyInt(0), PyBool(FALSE), PyList(<<>>)}
SeedDicts == {EmptyDict} \cup {S_x :> v : v \in SeedValues}
SeedDefaults ==
    { PyDict(S_x :> PyInt(1)),
      PyDict((S_x :> PyInt(1)) @@ (S_y :> PyInt(2))),
      PyList(<<PyStr(S_x)>>) }

InitSeed ==
    /\ answers = EmptyDict
    /\ pc = "idle"
    /\ call = NoCall
    /\ ov_map = EmptyDict
    /\ merged = NoMerge
    /\ store \in {<<DictObj(s)>> : s \in SeedDicts}
                 \cup {<<DictObj(s), DictObj(t)>> : s \in SeedDicts, t \in SeedDicts}
    /\ qdef = NoQdef
    /\ outs = <<>>
    /\ trace = <<>>
    /\ ver = NoVer

\* a call seed_defaults(state, defaults, overwrite_empty_only) on the
\* session store itself or on the other dict
Seed ==
    /\ pc = "idle"
    /\ Len(outs) < MaxRuns
    /\ \E state \in 1..Len(store), defaults \in SeedDefaults, flag \in BOOLEAN :
         /\ store' = seed_defaults(store, state, defaults, flag)
         /\ outs' = Append(outs, [before |-> store, state |-> state,
                                  defaults |-> defaults, flag |-> flag])
         /\ call' = Called("seed_defaults", defaults, PyNone, PyNone, PyNone,
                           TRUE, FALSE)
    /\ pc' = "called"
    /\ UNCHANGED <<answers, ov_map, merged, qdef, trace, ver>>

NextSeed == Seed \/ Return

SpecSeed == InitSeed /\ [][NextSeed]_vars

\* a call with overwrite_empty_only = True has just returned
SeededEmptyOnly == pc = "called" /\ call.op = "seed_defaults" /\ LastOut.flag
\* the state dict before the call and after it
StateBefore == LastOut.before[LastOut.state].d
StateAfter == store[LastOut.state].d

\* C29: seed_defaults with overwrite_empty_only = True sets a key only when
\* the key is missing from the state dict passed to it or holds None or "":
\* every key with another value there (0, False and [] included) keeps it,
\* also when the session store is another object with another value.
Claim_C29_OtherValuesKept ==
    SeededEmptyOnly =>
        \A k \in DOMAIN StateBefore :
            StateBefore[k] \notin {PyNone, V_empty} => StateAfter[k] = StateBefore[k]

Wit_C29_AnswerLostToEmptySessionValue ==
    /\ SeededEmptyOnly
    /\ LastOut.state # SessionState
    /\ LastOut.defaults = PyDict(S_x :> PyInt(1))
    /\ LastOut.before[SessionState].d = (S_x :> V_empty)
    /\ StateBefore = (S_x :> V_A)
    /\ StateAfter = (S_x :> PyInt(1))

(***************************************************************************)
(* pages/99_Admin.py: bump_data_version in two admin sessions.  Streamlit  *)
(* runs each session's script in a thread of its own; the read and the     *)
(* write of the version file are two steps.                                *)
(***************************************************************************)
AdminSessions == {1, 2}

InitVersion ==
    /\ answers = EmptyDict
    /\ pc = "idle"
    /\ call = NoCall
    /\ ov_map = EmptyDict
    /\ merged = NoMerge
    /\ store = <<>>
    /\ qdef = NoQdef
    /\ outs = <<>>
    /\ trace = <<>>
    /\ ver = [file |-> VersionFile(0, 0),
              sess |-> [s \in AdminSessions |-> [at |-> "idle", cur |-> VersionFile(0, 0)]],
              done |-> <<>>]

\* the bumps started so far: the completed ones and those between their
\* read and their write
Started == Len(ver.done) + Cardinality({s \in AdminSessions : ver.sess[s].at = "read"})

\* bump_data_version: "cur = _read_json(VERSION_FP, {"v": 0, "ts": 0})"
BumpRead(s) ==
    /\ ver.sess[s].at = "idle"
    /\ Started < MaxBumps
    /\ ver' = [ver EXCEPT !.sess[s] = [at |-> "read", cur |-> ver.file]]
    /\ UNCHANGED <<answers, pc, call, ov_map, merged, store, qdef, outs, trace>>

\* bump_data_version: "cur["v"] = int(cur.get("v", 0)) + 1",
\* "cur["ts"] = int(time.time())", "_write_json(VERSION_FP, cur)", "return cur"
BumpWrite(s) ==
    /\ ver.sess[s].at = "read"
    /\ \E now \in 0..MaxTime :
         LET cur == VersionFile(ver.sess[s].cur.v + 1, now)
         IN  ver' = [file |-> cur,
                     sess |-> [ver.sess EXCEPT ![s] = [at |-> "idle", cur |-> cur]],
                     done |-> Append(ver.done, [by |-> s, v |-> cur.v])]
    /\ UNCHANGED <<answers, pc, call, ov_map, merged, store, qdef, outs, trace>>

NextVersion == \E s \in AdminSessions : BumpRead(s) \/ BumpWrite(s)

SpecVersion == InitVersion /\ [][NextVersion]_vars

\* C30: every completed bump_data_version leaves a version counter strictly
\* greater than the one left by every bump completed before it, also when
\* two admin sessions interleave the read and the write of their bumps.
Claim_C30_CompletedBumpsIncrease ==
    \A i, j \in 1..Len(ver.done) : i < j => ver.done[i].v < ver.done[j].v

Wit_C30_TwoBumpsLeaveTheSameVersion ==
    /\ Len(ver.done) = 2
    /\ ver.done[1].by # ver.done[2].by
    /\ ver.done[1].v = 1 /\ ver.done[2].v = 1
    /\ ver.file.v = 1
    /\ \A s \in AdminSessions : ver.sess[s].at = "idle"

====
